---- MODULE Spec2Model ----
(***************************************************************************)
(* A model of the Toastmasters club reporter: the session store and the    *)
(* browser authentication flow (security/auth.py, manager), the HTTP       *)
(* client's pagination (api/client_api.py) and the two concurrent fetch    *)
(* phases (service/toastmasters_api_service.py, manager).                  *)
(*                                                                         *)
(* The model/member.py and model/club.py objects and the aggregation of    *)
(* service/toastmasters_data_service.py follow, then main.py.              *)
(*                                                                         *)
(* The specifications share the variables:                                 *)
(*   SpecPrimary  get_primary_endpoints against a server whose cursors     *)
(*                never end; SpecPrimaryFair adds its scheduling;          *)
(*   SpecFetch    the manager's fetch_data_from_endpoints, both phases,    *)
(*                against a server with at most MaxServerPages pages;      *)
(*   SpecDetail   get_detailed_progress over any list of pairs;            *)
(*   SpecSession  direct calls of the session store;                       *)
(*   SpecAuth     the session store and ToastmastersManager.authenticate;  *)
(*   SpecMember   add_pathway_progress and generate_summary on one Member; *)
(*   SpecNextProjects  add_detailed_progress on one Member;                *)
(*   SpecClub     generate_summary on one Club;                            *)
(*   SpecPipeline  the fetch phases, then build_indexes, against a server  *)
(*                whose progress feed repeats pairs;                       *)
(*   SpecAggregate  build_indexes over any raw dataset of RawDatasets;     *)
(*   SpecMain     a run of main against a server of one-page endpoints.    *)
(***************************************************************************)
EXTENDS Integers, Sequences, FiniteSets, TLC

VARIABLES
    srv,            \* the server the client talks to: "endless", "finite", "feed", "single"
    ptask,          \* endpoint name -> the _fetch_primary_endpoint coroutine
    sent,           \* endpoint name -> requests the server received for it
    primary,        \* the get_primary_endpoints call: [pc, value]
    combos,         \* the (username, course_id) list of the detail phase
    dtask,          \* position in combos -> the _fetch_detailed_progress coroutine
    detail,         \* the get_detailed_progress call: [pc, value]
    data_output,    \* ToastmastersManager.data_output
    fetch,          \* the fetch_data_from_endpoints call: [pc, result]
    now,            \* the clock, in hours
    file,           \* the content of toastmasters_session.json
    club_name,      \* EnvironmentManager.club_name
    loaded,         \* the last direct load_session_data call and its outcome
    user_id,        \* ToastmastersManager.user_id
    club_id,        \* ToastmastersManager.club_id
    session_data,   \* ToastmastersManager.session_data
    mauth,          \* the ToastmastersManager.authenticate call
    flow,           \* the ToastmastersAuthenticator.authenticate call
    member,         \* one Member object
    call,           \* the last call on member: its arguments
    members,        \* ToastmastersManager.members
    club,           \* ToastmastersManager.club
    pathways_data,  \* PathwayAnalyzerService.pathways_data after loading
    main            \* the run of main: [pc, outcome, steps]

fetchVars == <<srv, ptask, sent, primary, combos, dtask, detail, data_output, fetch>>

authVars == <<now, file, club_name, loaded, user_id, club_id, session_data, mauth, flow>>

aggVars == <<member, call, members, club, pathways_data, main>>

vars == <<fetchVars, authVars, aggVars>>

-----------------------------------------------------------------------------
(* Bounds of the model *)

\* pages per endpoint the "finite" server holds
MaxServerPages == 2

\* longest pair list handed to get_detailed_progress in SpecDetail
MaxPairs == 3

-----------------------------------------------------------------------------
(* Values *)

None == "None"
Url == "url"

\* the safety limit of handle_pagination's loop
PageLimit == 20

PrimaryEndpoints == {"overview", "progress"}

\* One entry of a page's results: the fields the data service reads (None
\* stands for an absent key).  An overview result carries completed_paths, a
\* progress result course_id, path_name and progression.
FullResult(u, c, pn, prog, cp) ==
    [username |-> u, course_id |-> c, path_name |-> pn, progression |-> prog,
     completed_paths |-> cp]

Result(u, c) == FullResult(u, c, "Path A", <<>>, <<>>)

\* dict.update
DictUpdate(d1, d2) ==
    [k \in (DOMAIN d1) \cup (DOMAIN d2) |-> IF k \in DOMAIN d2 THEN d2[k] ELSE d1[k]]

EmptyDict == [k \in {} |-> <<>>]

-----------------------------------------------------------------------------
(* The server: what a GET may answer *)

\* JSON bodies.  nonempty: the object has at least one key (an empty object is
\* falsy in `success and data`); has_results: it has a "results" key.
NoData == [nonempty |-> FALSE, has_results |-> FALSE, results |-> <<>>, next |-> None]

Page(hr, rs, nx) == [nonempty |-> TRUE, has_results |-> hr, results |-> rs, next |-> nx]

\* Non-empty results lists the server may put on a page of an endpoint.
Contents(e) ==
    IF srv = "single"
    THEN IF e = "progress"
         THEN { <<Result("jdoe", "C1"), Result("asmith", "C1")>> }
         ELSE { <<Result("jdoe", None)>> }
    ELSE IF srv = "feed"
    THEN IF e = "progress"
         THEN { <<Result("jdoe", "C1")>>,
                <<Result("jdoe", "C1"), Result("jdoe", "C1")>>,
                <<Result("jdoe", "C2"), Result("jdoe", "C1")>> }
         ELSE { <<Result("jdoe", None)>> }
    ELSE IF srv = "finite" /\ e = "progress"
    THEN { <<Result("jdoe", "C1")>>,
           <<Result("jdoe", "C1"), Result("asmith", "C1")>>,
           <<Result(None, "C1")>>,
           <<Result("asmith", None), Result("jdoe", "C1")>> }
    ELSE { <<Result("jdoe", None)>> }

\* Whether the n-th page of an endpoint may carry a next cursor.
MayHaveNext(n) == srv = "endless" \/ (srv \in {"finite", "feed"} /\ n < MaxServerPages)

Pages(e, n) ==
    {NoData} \cup
    { Page(FALSE, <<>>, nx) : nx \in IF MayHaveNext(n) THEN {None, Url} ELSE {None} } \cup
    { Page(TRUE, rs, nx) : rs \in {<<>>} \cup Contents(e),
                           nx \in IF MayHaveNext(n) THEN {None, Url} ELSE {None} }

FailStatuses == {0, 401, 500}

\* make_request's return value (success, data, status_code)
Response(ok, d, st) == [success |-> ok, data |-> d, status |-> st]

NoResponse == Response(FALSE, NoData, -1)

MakeRequest(e, n) ==
    { Response(FALSE, NoData, st) : st \in FailStatuses } \cup
    { Response(TRUE, d, 200) : d \in Pages(e, n) }

\* `success and data`
SuccessAndData(r) == r.success /\ r.data.nonempty

\* data.get('results', []) is empty
NoResults(d) == ~d.has_results \/ d.results = <<>>

-----------------------------------------------------------------------------
(* ToastmastersAPIClient.handle_pagination *)

\* the loop test with the limit off by one
\* while next_url: no safety limit
LoopCond_NoCap(next_url, page_count) == next_url # None

LoopCond_OffByOne(next_url, page_count) == next_url # None /\ page_count <= PageLimit

\* while next_url and page_count < 20
LoopCond(next_url, page_count) == next_url # None /\ page_count < PageLimit

NewTask == [pc |-> "created", resp |-> NoResponse, page_count |-> 0,
            next_url |-> None, endpoint_data |-> <<>>]

LoopBusy == \E e \in PrimaryEndpoints : ptask[e].pc = "paginating"

\* One iteration of the while loop, the blocking make_request included.
PaginateBody(t, r) ==
    LET pc1 == t.page_count + 1 IN
    IF SuccessAndData(r)
    THEN IF NoResults(r.data)
         THEN [t EXCEPT !.page_count = pc1, !.resp = r, !.pc = "returned"]
         ELSE [t EXCEPT !.page_count = pc1, !.resp = r,
                        !.endpoint_data = Append(@, r.data),
                        !.next_url = r.data.next,
                        !.pc = IF LoopCond(r.data.next, pc1)
                               THEN "paginating" ELSE "returned"]
    ELSE [t EXCEPT !.page_count = pc1, !.resp = r, !.pc = "returned"]

PaginateStep(e) ==
    /\ ptask[e].pc = "paginating"
    /\ \E r \in MakeRequest(e, ptask[e].page_count + 1) :
          ptask' = [ptask EXCEPT ![e] = PaginateBody(ptask[e], r)]
    /\ sent' = [sent EXCEPT ![e] = @ + 1]
    /\ UNCHANGED <<authVars, aggVars>>
    /\ UNCHANGED <<srv, primary, combos, dtask, detail, data_output, fetch>>

-----------------------------------------------------------------------------
(* ToastmastersAPIService: the primary phase *)

\* fetch_data_from_endpoints up to `await asyncio.gather` of the primary
\* tasks: each coroutine runs to its make_async_request, which hands the
\* request to the executor.
FetchBegin ==
    /\ fetch.pc = "start"
    /\ fetch' = [fetch EXCEPT !.pc = "primary"]
    /\ primary' = [primary EXCEPT !.pc = "gathering"]
    /\ ptask' = [e \in PrimaryEndpoints |-> [NewTask EXCEPT !.pc = "inflight"]]
    /\ sent' = [e \in PrimaryEndpoints |-> 1]
    /\ UNCHANGED <<authVars, aggVars>>
    /\ UNCHANGED <<srv, combos, dtask, detail, data_output>>

\* The executor thread's make_request returns.
ThreadResponse(e) ==
    /\ ptask[e].pc = "inflight"
    /\ \E r \in MakeRequest(e, 1) :
          ptask' = [ptask EXCEPT ![e] = [@ EXCEPT !.pc = "responded", !.resp = r]]
    /\ UNCHANGED <<authVars, aggVars>>
    /\ UNCHANGED <<srv, sent, primary, combos, dtask, detail, data_output, fetch>>

\* _fetch_primary_endpoint after its await, up to handle_pagination's first
\* loop test.  The event loop runs one coroutine at a time and
\* handle_pagination blocks it.
ResumeBody(t) ==
    IF SuccessAndData(t.resp)
    THEN [t EXCEPT !.endpoint_data = <<t.resp.data>>,
                   !.next_url = t.resp.data.next,
                   !.page_count = 1,
                   !.pc = IF LoopCond(t.resp.data.next, 1)
                          THEN "paginating" ELSE "returned"]
    ELSE [t EXCEPT !.pc = "raised"]

ResumePrimary(e) ==
    /\ ptask[e].pc = "responded"
    /\ ~LoopBusy
    /\ ptask' = [ptask EXCEPT ![e] = ResumeBody(ptask[e])]
    /\ UNCHANGED <<authVars, aggVars>>
    /\ UNCHANGED <<srv, sent, primary, combos, dtask, detail, data_output, fetch>>

TaskDone(t) == t.pc \in {"returned", "raised"}

\* _execute_parallel_requests over the primary tasks, then the rest of
\* get_primary_endpoints.
PrimaryErrorCount == Cardinality({e \in PrimaryEndpoints : ptask[e].pc = "raised"})

PrimaryValue ==
    [e \in {x \in PrimaryEndpoints : ptask[x].pc = "returned"} |-> ptask[e].endpoint_data]

\* a wait that ends with the first finished task
PrimaryJoinReady_FirstCompleted == \E e \in PrimaryEndpoints : TaskDone(ptask[e])

PrimaryJoinReady == \A e \in PrimaryEndpoints : TaskDone(ptask[e])

PrimaryJoin ==
    /\ primary.pc = "gathering"
    /\ PrimaryJoinReady
    /\ primary' = IF PrimaryErrorCount > 0
                  THEN [pc |-> "raised", value |-> EmptyDict]
                  ELSE [pc |-> "returned", value |-> PrimaryValue]
    /\ UNCHANGED <<authVars, aggVars>>
    /\ UNCHANGED <<srv, ptask, sent, combos, dtask, detail, data_output, fetch>>

-----------------------------------------------------------------------------
(* ToastmastersDataService.get_user_course_combinations *)

RECURSIVE FlattenResults(_)
FlattenResults(pages) ==
    IF pages = <<>> THEN <<>>
    ELSE (IF Head(pages).has_results THEN Head(pages).results ELSE <<>>)
         \o FlattenResults(Tail(pages))

HasUserAndCourse(r) == r.username # None /\ r.course_id # None

\* the list `combinations` before list(set(...))
CombinationList(d, endpoint_name) ==
    LET progress_data == IF endpoint_name \in DOMAIN d THEN d[endpoint_name] ELSE <<>>
        kept == SelectSeq(FlattenResults(progress_data), HasUserAndCourse)
    IN  [i \in 1..Len(kept) |-> <<kept[i].username, kept[i].course_id>>]

SeqRange(s) == {s[i] : i \in 1..Len(s)}

\* list(set(...)): the set's elements once each, in an order the hash decides
Orderings(S) ==
    {s \in [1..Cardinality(S) -> S] : \A i, j \in 1..Cardinality(S) : i # j => s[i] # s[j]}

\* get_user_course_combinations without set(): the list as collected
GetUserCourseCombinations_NoSet(d) == {CombinationList(d, "progress")}

\* ToastmastersDataService.get_user_course_combinations
GetUserCourseCombinations(d) == Orderings(SeqRange(CombinationList(d, "progress")))

-----------------------------------------------------------------------------
(* ToastmastersAPIService: the detail phase *)

\* a progress_detail body with content
DetailPayload == Page(FALSE, <<>>, None)

\* a body with blocks: Level 1 of Path A with one project left
DetailWithBlocks ==
    [nonempty |-> TRUE, has_results |-> FALSE, results |-> <<>>, next |-> None,
     blocks |-> [empty |-> FALSE, display_name |-> "Path A",
                 children |->
                    << [type |-> "chapter",
                        display_name |-> [text |-> "Level 1", starts |-> TRUE, token |-> "1"],
                        min_req_electives |-> 0,
                        children |->
                           << [type |-> "sequential", complete |-> FALSE,
                               block_lib_type |-> "core",
                               display_name |-> "Ice Breaker (Legacy)"] >>] >>]]

\* the bodies a detail GET may carry
DetailPayloads ==
    IF srv = "feed" THEN {DetailPayload, DetailWithBlocks} ELSE {DetailPayload}

MakeDetailRequest ==
    { Response(FALSE, NoData, st) : st \in FailStatuses } \cup
    { Response(TRUE, d, 200) : d \in {NoData} \cup DetailPayloads }

NewDetailTask(pair) ==
    [pc |-> "inflight", username |-> pair[1], course_id |-> pair[2],
     resp |-> NoResponse, logged |-> None]

\* get_detailed_progress up to `await asyncio.gather`: one coroutine per pair,
\* each run to its make_async_request.
GatherDetail(pairs) ==
    /\ dtask' = [i \in 1..Len(pairs) |-> NewDetailTask(pairs[i])]
    /\ detail' = [detail EXCEPT !.pc = "gathering"]

DetailGather ==
    /\ detail.pc = "idle"
    /\ GatherDetail(combos)
    /\ UNCHANGED <<authVars, aggVars>>
    /\ UNCHANGED <<srv, ptask, sent, primary, combos, data_output, fetch>>

DetailThreadResponse(i) ==
    /\ dtask[i].pc = "inflight"
    /\ \E r \in MakeDetailRequest :
          dtask' = [dtask EXCEPT ![i] = [@ EXCEPT !.pc = "responded", !.resp = r]]
    /\ UNCHANGED <<authVars, aggVars>>
    /\ UNCHANGED <<srv, ptask, sent, primary, combos, detail, data_output, fetch>>

\* _fetch_detailed_progress after its await: the entry, or the error logged
\* and the bare raise, which the except clause logs and raises again.
DetailBody(t) ==
    IF SuccessAndData(t.resp) THEN [t EXCEPT !.pc = "returned"]
    ELSE IF t.resp.status = 401
         THEN [t EXCEPT !.pc = "raised", !.logged = "Authentication expired"]
         ELSE [t EXCEPT !.pc = "raised", !.logged = "Failed to fetch progress"]

DetailResume(i) ==
    /\ dtask[i].pc = "responded"
    /\ dtask' = [dtask EXCEPT ![i] = DetailBody(dtask[i])]
    /\ UNCHANGED <<authVars, aggVars>>
    /\ UNCHANGED <<srv, ptask, sent, primary, combos, detail, data_output, fetch>>

DetailEntry(t) == [username |-> t.username, course_id |-> t.course_id, data |-> t.resp.data]

Returned(t) == t.pc = "returned"

\* _execute_parallel_requests over the detail tasks: gather(return_exceptions=True)
\* waits for every task; the results that are exceptions are counted and dropped.
SuccessfulResults ==
    LET ok == SelectSeq(dtask, Returned)
    IN  [i \in 1..Len(ok) |-> DetailEntry(ok[i])]

\* gather without return_exceptions: the first exception ends the wait
DetailJoinReady_FirstException ==
    \/ \A i \in 1..Len(dtask) : TaskDone(dtask[i])
    \/ \E i \in 1..Len(dtask) : dtask[i].pc = "raised"

DetailJoinReady == \A i \in 1..Len(dtask) : TaskDone(dtask[i])

\* the primary phase's policy applied to the detail phase
DetailJoinValue_AllOrNothing ==
    IF \E i \in 1..Len(dtask) : dtask[i].pc = "raised"
    THEN [pc |-> "raised", value |-> <<>>]
    ELSE [pc |-> "returned", value |-> SuccessfulResults]

DetailJoinValue == [pc |-> "returned", value |-> SuccessfulResults]

DetailJoin ==
    /\ detail.pc = "gathering"
    /\ DetailJoinReady
    /\ detail' = DetailJoinValue
    /\ UNCHANGED <<authVars, aggVars>>
    /\ UNCHANGED <<srv, ptask, sent, primary, combos, dtask, data_output, fetch>>

-----------------------------------------------------------------------------
(* ToastmastersManager.fetch_data_from_endpoints *)

\* get_primary_endpoints returned: data_output.update(primary_data), the pair
\* list, and get_detailed_progress up to its gather.
FetchAfterPrimary ==
    /\ fetch.pc = "primary"
    /\ primary.pc = "returned"
    /\ data_output' = DictUpdate(data_output, primary.value)
    /\ \E pairs \in GetUserCourseCombinations(data_output') :
          /\ combos' = pairs
          /\ GatherDetail(pairs)
    /\ fetch' = [fetch EXCEPT !.pc = "detail"]
    /\ UNCHANGED <<authVars, aggVars>>
    /\ UNCHANGED <<srv, ptask, sent, primary>>

\* get_primary_endpoints raised: the except clause returns False.
FetchPrimaryFailed ==
    /\ fetch.pc = "primary"
    /\ primary.pc = "raised"
    /\ fetch' = [pc |-> "done", result |-> "False"]
    /\ UNCHANGED <<authVars, aggVars>>
    /\ UNCHANGED <<srv, ptask, sent, primary, combos, dtask, detail, data_output>>

\* get_detailed_progress returned: data_output['progress_detail'] = ...; return True
FetchEnd ==
    /\ fetch.pc = "detail"
    /\ detail.pc = "returned"
    /\ data_output' = DictUpdate(data_output, [k \in {"progress_detail"} |-> detail.value])
    /\ fetch' = [pc |-> "done", result |-> "True"]
    /\ UNCHANGED <<authVars, aggVars>>
    /\ UNCHANGED <<srv, ptask, sent, primary, combos, dtask, detail>>

-----------------------------------------------------------------------------
(* Python values and exceptions *)

\* the outcome of evaluating an expression: a value, or an exception raised
Return(v) == [exc |-> None, value |-> v]
Raise(name) == [exc |-> name, value |-> None]
Raised(o) == o.exc # None

-----------------------------------------------------------------------------
(* The session file and FileManager *)

\* hours until a saved session expires
SessionHours == 8

\* hours until the session_data that authenticate returns expires
ReturnedHours == 24

\* the value under 'expires': an ISO string of a naive or an aware datetime,
\* some other string, a value that is no string, or no such key
Naive(t) == [tag |-> "naive", at |-> t]
Aware(t) == [tag |-> "aware", at |-> t]
OtherText == [tag |-> "text", at |-> 0]
NotAString == [tag |-> "number", at |-> 0]
NoKey == [tag |-> "missing", at |-> 0]

\* What the file holds: kind "missing" (no file), "garbage" (no JSON), "empty"
\* (the object {}), "list" (a non-empty JSON array) or "dict" (an object with
\* the fields below).  Kind "none" is Python's None.
Stored(kind, exp, uid, cid, dash, enr, ts) ==
    [kind |-> kind, expires |-> exp, user_id |-> uid, club_id |-> cid,
     dashboard_club_id |-> dash, member_enrollment_status |-> enr, timestamp |-> ts]

Blank(kind) == Stored(kind, NoKey, None, None, None, None, 0)

NoSession == Blank("none")

IsNone(v) == v.kind = "none"

\* Python truth of a loaded JSON value
Truthy(v) == v.kind \in {"list", "dict"}

\* open(file_path) and json.load(f)
JsonLoad(f) ==
    IF f.kind = "missing" THEN Raise("FileNotFoundError")
    ELSE IF f.kind = "garbage" THEN Raise("JSONDecodeError")
    ELSE Return(f)

\* FileManager.load_json: except Exception: return {}
LoadJson(f) ==
    LET r == JsonLoad(f) IN IF Raised(r) THEN Return(Blank("empty")) ELSE r

-----------------------------------------------------------------------------
(* SessionManager *)

\* datetime.fromisoformat(session_data['expires'])
ExpiresOf(v) ==
    IF v.kind = "list" THEN Raise("TypeError")
    ELSE IF v.expires.tag = "missing" THEN Raise("KeyError")
    ELSE IF v.expires.tag = "number" THEN Raise("TypeError")
    ELSE IF v.expires.tag = "text" THEN Raise("ValueError")
    ELSE Return(v.expires)

\* datetime.now() > expires: a naive and an aware datetime do not compare
IsAfter(clock, dt) ==
    IF dt.tag = "aware" THEN Raise("TypeError") ELSE Return(clock > dt.at)

\* SessionManager.load_session_data
LoadSessionData(f, clock) ==
    LET sd == LoadJson(f) IN
    IF Raised(sd) THEN sd
    ELSE IF ~Truthy(sd.value) THEN Return(NoSession)
    ELSE LET e == ExpiresOf(sd.value) IN
         IF Raised(e) THEN Return(NoSession)
         ELSE LET late == IsAfter(clock, e.value) IN
              IF Raised(late) THEN Return(NoSession)
              ELSE IF late.value THEN Return(NoSession)
              ELSE Return(sd.value)

\* the record save_session_data writes
SavedRecord(uid, cid, dash, enr, clock) ==
    Stored("dict", Naive(clock + SessionHours), uid, cid, dash, enr, clock)

\* SessionManager.save_session_data: the file after the call; save_json
\* returns False and leaves the file as it was when the write fails
SaveSessionData(f, ok, uid, cid, dash, enr, clock) ==
    IF ok THEN SavedRecord(uid, cid, dash, enr, clock) ELSE f

-----------------------------------------------------------------------------
(* ToastmastersAuthenticator *)

Cookie(n, v, tm) == [name |-> n, value |-> v, toastmasters_domain |-> tm]

\* the cookie sets the browser context may hold after the Base Camp page
CookieJars ==
    { <<Cookie("session", "s", TRUE)>>,
      <<Cookie("session", "s", TRUE), Cookie("CEContactId", "U1", TRUE)>>,
      <<Cookie("CEContactId", "X9", FALSE), Cookie("CEContactId", "U1", TRUE)>>,
      <<Cookie("CEContactId", "X9", FALSE)>> }

\* _extract_user_id
RECURSIVE ExtractUserId(_)
ExtractUserId(cookies) ==
    IF cookies = <<>> THEN None
    ELSE IF Head(cookies).name = "CEContactId" /\ Head(cookies).toastmasters_domain
         THEN Head(cookies).value
         ELSE ExtractUserId(Tail(cookies))

ClubEntry(n, u) == [name |-> n, uuid |-> u]

ClubNames == {"Shaw Floor Speakers", "Harbour Speakers"}

\* the club lists the profile endpoint may return
ClubLists ==
    { <<>>,
      <<ClubEntry("Shaw Floor Speakers", "uuid-shaw")>>,
      <<ClubEntry("Harbour Speakers", "uuid-harbour")>>,
      <<ClubEntry("Harbour Speakers", "uuid-harbour"),
        ClubEntry("Shaw Floor Speakers", "uuid-shaw")>>,
      <<ClubEntry("Shaw Floor Speakers", None)>> }

ProfileResponse(ok, cl, st) == [success |-> ok, clubs |-> cl, status |-> st]

ProfileResponses ==
    { ProfileResponse(FALSE, <<>>, st) : st \in FailStatuses } \cup
    { ProfileResponse(TRUE, cl, 200) : cl \in ClubLists }

\* the for loop of _get_club_id
RECURSIVE FindClub(_)
FindClub(clubs) ==
    IF clubs = <<>> THEN None
    ELSE IF Head(clubs).name = "Shaw Floor Speakers" /\ Head(clubs).uuid # None
         THEN Head(clubs).uuid
         ELSE FindClub(Tail(clubs))

\* _get_club_id; the profile body always has a 'clubs' key here
GetClubId(r, configured_name) ==
    IF r.success THEN FindClub(r.clubs) ELSE None

\* the profile endpoint has not been asked
NoProfile == ProfileResponse(FALSE, <<>>, -1)

NewFlow ==
    [pc |-> "idle", browser |-> "unbound", cookies |-> <<>>,
     user_id |-> None, club_id |-> None, dashboard_club_id |-> None,
     member_enrollment_status |-> None, result |-> "pending", saved |-> FALSE,
     exception |-> FALSE, session_data |-> NoSession, profile |-> NoProfile]

\* `return None` after `await browser.close()`
CloseAndReturnNone(f) ==
    [f EXCEPT !.browser = "closed", !.pc = "done", !.result = "None"]

\* except Exception: `if browser:` reads a name that is unbound when the
\* launch itself failed (UnboundLocalError leaves the handler); otherwise the
\* browser is closed and None is returned
Handler(f) ==
    IF f.browser = "unbound"
    THEN [f EXCEPT !.exception = TRUE, !.pc = "done", !.result = "raised"]
    ELSE CloseAndReturnNone([f EXCEPT !.exception = TRUE])

\* async_playwright() and p.firefox.launch
FlowLaunch ==
    /\ flow.pc = "launch"
    /\ \E ok \in BOOLEAN :
          flow' = IF ok THEN [flow EXCEPT !.browser = "open", !.pc = "navigate"]
                  ELSE Handler(flow)
    /\ UNCHANGED <<fetchVars, aggVars>>
    /\ UNCHANGED <<now, file, club_name, loaded, user_id, club_id, session_data, mauth>>

\* new_context .. the login form .. the Base Camp page .. context.cookies()
FlowNavigate ==
    /\ flow.pc = "navigate"
    /\ \/ flow' = Handler(flow)
       \/ \E jar \in CookieJars :
             flow' = [flow EXCEPT !.cookies = jar, !.pc = "identify"]
    /\ UNCHANGED <<fetchVars, aggVars>>
    /\ UNCHANGED <<now, file, club_name, loaded, user_id, club_id, session_data, mauth>>

\* user_id = self._extract_user_id(cookies)
FlowUserId ==
    /\ flow.pc = "identify"
    /\ LET uid == ExtractUserId(flow.cookies) IN
       flow' = IF uid = None THEN CloseAndReturnNone(flow)
               ELSE [flow EXCEPT !.user_id = uid, !.pc = "club"]
    /\ UNCHANGED <<fetchVars, aggVars>>
    /\ UNCHANGED <<now, file, club_name, loaded, user_id, club_id, session_data, mauth>>

\* club_id = self._get_club_id(cookies, user_agent, user_id, club_name)
FlowClubId ==
    /\ flow.pc = "club"
    /\ \E r \in ProfileResponses :
          LET cid == GetClubId(r, club_name) IN
          flow' = IF cid = None
                  THEN CloseAndReturnNone([flow EXCEPT !.profile = r])
                  ELSE [flow EXCEPT !.profile = r, !.club_id = cid,
                                    !.pc = "dashboard"]
    /\ UNCHANGED <<fetchVars, aggVars>>
    /\ UNCHANGED <<now, file, club_name, loaded, user_id, club_id, session_data, mauth>>

\* what the Club Central page gives: the navigation fails, or the page has or
\* lacks the .SelectedClub element
DashboardOutcomes == {"navigation failed", "found", "not found"}

\* the step after the dashboard club id has been looked up
AfterDashboard(f, o) ==
    IF o = "navigation failed" THEN Handler(f)
    ELSE IF o = "not found" THEN CloseAndReturnNone(f)
    ELSE [f EXCEPT !.dashboard_club_id = "CB-1", !.pc = "enrollment"]

\* page.goto(CLUB_CENTRAL_URL) and _get_dashboard_club_id
FlowDashboard ==
    /\ flow.pc = "dashboard"
    /\ \E o \in DashboardOutcomes : flow' = AfterDashboard(flow, o)
    /\ UNCHANGED <<fetchVars, aggVars>>
    /\ UNCHANGED <<now, file, club_name, loaded, user_id, club_id, session_data, mauth>>

\* the membership page, _get_member_enrollment_status (an empty list when the
\* scrape fails) and `await browser.close()`
FlowEnrollment ==
    /\ flow.pc = "enrollment"
    /\ \/ flow' = Handler(flow)
       \/ \E enr \in {"[]", "[members]"} :
             flow' = [flow EXCEPT !.member_enrollment_status = enr,
                                  !.browser = "closed", !.pc = "save"]
    /\ UNCHANGED <<fetchVars, aggVars>>
    /\ UNCHANGED <<now, file, club_name, loaded, user_id, club_id, session_data, mauth>>

\* the session_data dict that authenticate builds and returns
ReturnedSession(f, clock) ==
    Stored("dict", Naive(clock + ReturnedHours), f.user_id, f.club_id,
           f.dashboard_club_id, None, clock)

\* save_session_data and the return of the tuple
FlowSave ==
    /\ flow.pc = "save"
    /\ \E ok \in BOOLEAN :
          /\ file' = SaveSessionData(file, ok, flow.user_id, flow.club_id,
                                     flow.dashboard_club_id,
                                     flow.member_enrollment_status, now)
          /\ flow' = [flow EXCEPT !.session_data = ReturnedSession(flow, now),
                                  !.saved = ok, !.result = "tuple", !.pc = "done"]
    /\ UNCHANGED <<fetchVars, aggVars>>
    /\ UNCHANGED <<now, club_name, loaded, user_id, club_id, session_data, mauth>>

\* return user_id, club_id, dashboard_club_id, session_data, member_enrollment_status
AuthResult(f) ==
    <<f.user_id, f.club_id, f.dashboard_club_id, f.session_data,
      f.member_enrollment_status>>

-----------------------------------------------------------------------------
(* ToastmastersManager.authenticate *)

\* calls of ToastmastersManager.authenticate in one run of the model
MaxCalls == 2

\* the last hour of the clock
MaxTime == 9

\* the latest expiry of a session file found at the start
MaxExpires == 2

Idle == [pc |-> "idle", force |-> FALSE, existing |-> NoSession,
         outcome |-> None, calls |-> 0]

\* authenticate up to `await self.authenticator.authenticate(...)`, or to its
\* early return
MgrAuthenticate(force_auth) ==
    /\ mauth.pc \in {"idle", "done"}
    /\ mauth.calls < MaxCalls
    /\ LET existing_session == LoadSessionData(file, now).value
           use == ~IsNone(existing_session) /\ ~force_auth
           uid == IF use THEN existing_session.user_id ELSE user_id
           cid == IF use THEN existing_session.club_id ELSE club_id
           sd == IF use THEN existing_session ELSE session_data
           complete == uid # None /\ cid # None /\ ~IsNone(sd)
       IN  /\ user_id' = uid
           /\ club_id' = cid
           /\ session_data' = sd
           /\ mauth' = [pc |-> IF complete THEN "done" ELSE "browser",
                        force |-> force_auth, existing |-> existing_session,
                        outcome |-> IF complete THEN "returned" ELSE None,
                        calls |-> mauth.calls + 1]
           /\ flow' = IF complete THEN NewFlow ELSE [NewFlow EXCEPT !.pc = "launch"]
    /\ UNCHANGED <<fetchVars, aggVars>>
    /\ UNCHANGED <<now, file, club_name, loaded>>

\* authenticate after the await: an exception of the flow passes through; a
\* result is unpacked into three names; no result raises ValueError
MgrAuthFinish ==
    /\ mauth.pc = "browser"
    /\ flow.pc = "done"
    /\ LET auth_result == AuthResult(flow) IN
       IF flow.result = "tuple" /\ Len(auth_result) = 3
       THEN /\ user_id' = auth_result[1]
            /\ club_id' = auth_result[2]
            /\ session_data' = auth_result[3]
            /\ mauth' = [mauth EXCEPT !.pc = "done", !.outcome = "returned"]
       ELSE /\ UNCHANGED <<user_id, club_id, session_data>>
            /\ mauth' = [mauth EXCEPT !.pc = "done", !.outcome = "raised"]
    /\ UNCHANGED <<fetchVars, aggVars>>
    /\ UNCHANGED <<now, file, club_name, loaded, flow>>

\* an hour passes
Tick ==
    /\ now < MaxTime
    /\ now' = now + 1
    /\ UNCHANGED <<fetchVars, aggVars>>
    /\ UNCHANGED <<file, club_name, loaded, user_id, club_id, session_data, mauth, flow>>

\* a direct call of load_session_data: the file is read, never written
Load ==
    /\ file' = file
    /\ loaded' = [called |-> TRUE, at |-> now, file |-> file,
                  outcome |-> LoadSessionData(file, now), file_after |-> file']
    /\ UNCHANGED <<fetchVars, aggVars>>
    /\ UNCHANGED <<now, club_name, user_id, club_id, session_data, mauth, flow>>

\* a direct call of save_session_data
Save ==
    /\ \E ok \in BOOLEAN, uid \in {None, "U1"} :
          file' = SaveSessionData(file, ok, uid, "uuid-shaw", None, "[]", now)
    /\ UNCHANGED <<fetchVars, aggVars>>
    /\ UNCHANGED <<now, club_name, loaded, user_id, club_id, session_data, mauth, flow>>

\* the session files a run may find
InitialFiles ==
    { Blank("missing"), Blank("garbage"), Blank("empty"), Blank("list") } \cup
    { Stored("dict", e, "U0", "K0", None, "[]", 0) :
          e \in {NoKey, NotAString, OtherText, Aware(MaxExpires)} } \cup
    { Stored("dict", Naive(t), uid, "K0", None, "[]", 0) :
          t \in 0..MaxExpires, uid \in {None, "U0"} }

NotLoaded == [called |-> FALSE, at |-> 0, file |-> Blank("missing"),
              outcome |-> Return(NoSession), file_after |-> Blank("missing")]

InitAuthIdle ==
    /\ now = 0
    /\ file = Blank("missing")
    /\ club_name = "Shaw Floor Speakers"
    /\ loaded = NotLoaded
    /\ user_id = None
    /\ club_id = None
    /\ session_data = NoSession
    /\ mauth = Idle
    /\ flow = NewFlow

-----------------------------------------------------------------------------
(* model/member.py: Member *)

\* levels in one progression payload
MaxLevels == 2

\* largest completed / total count of one level
MaxProjects == 2

\* a key of the progression dict: its text, whether it starts with 'Level',
\* and the first whitespace-delimited token after the first 'Level' ("" when
\* nothing follows)
LevelName(text, starts, token) == [text |-> text, starts |-> starts, token |-> token]

LevelNames ==
    { LevelName("Level 1", TRUE, "1"), LevelName("Level 2", TRUE, "2"),
      LevelName("Level 5", TRUE, "5"), LevelName("Level Up", TRUE, "Up"),
      LevelName("Overview", FALSE, "") }

\* the decimal numerals that occur as tokens
Numerals == ("1" :> 1) @@ ("2" :> 2) @@ ("5" :> 5)

\* int(level_name.split('Level')[1].strip().split()[0])
ParseLevel(token) ==
    IF token = "" THEN Raise("IndexError")
    ELSE IF token \in DOMAIN Numerals THEN Return(Numerals[token])
    ELSE Raise("ValueError")

\* Member._extract_level_number; every name here that has 'Level' in it
\* starts with it
ExtractLevelNumber(level_name) ==
    IF level_name.starts
    THEN LET n == ParseLevel(level_name.token) IN
         IF Raised(n) THEN 0 ELSE n.value
    ELSE 0

\* one item of the progression dict
LevelEntry(n, a, c, t) == [name |-> n, approved |-> a, completed |-> c, total |-> t]

LevelEntries ==
    { LevelEntry(n, a, c, t) :
        n \in LevelNames, a \in BOOLEAN, c \in 0..MaxProjects, t \in 0..MaxProjects }

\* the progression dicts, in insertion order: keys are distinct
Progressions ==
    { p \in UNION { [1..k -> LevelEntries] : k \in 0..MaxLevels } :
        \A i, j \in DOMAIN p : i # j => p[i].name # p[j].name }

Min(a, b) == IF a < b THEN a ELSE b
Max(a, b) == IF a > b THEN a ELSE b

\* the for loop of _calculate_current_level from item i on
RECURSIVE LevelLoop(_, _, _, _)
LevelLoop(p, i, current_level, remaining_projects) ==
    IF i > Len(p) THEN <<current_level, remaining_projects>>
    ELSE IF ~p[i].name.starts
         THEN LevelLoop(p, i + 1, current_level, remaining_projects)
    ELSE LET level_num == ExtractLevelNumber(p[i].name) IN
         IF p[i].approved \/ p[i].completed = p[i].total
         THEN LevelLoop(p, i + 1, level_num + 1, remaining_projects)
         ELSE IF p[i].completed > 0
              THEN <<level_num, p[i].total - p[i].completed>>
              ELSE LevelLoop(p, i + 1, current_level, remaining_projects)

\* Member._calculate_current_level returning the loop's values as they are
CalculateCurrentLevel_NoClamp(p) == LevelLoop(p, 1, 1, 0)

\* Member._calculate_current_level
CalculateCurrentLevel(p) ==
    LET r == LevelLoop(p, 1, 1, 0) IN <<Min(r[1], 5), Max(r[2], 0)>>

RECURSIVE SumOver(_, _, _)
SumOver(p, i, key) ==
    IF i > Len(p) THEN 0
    ELSE (IF p[i].name.starts THEN p[i][key] ELSE 0) + SumOver(p, i + 1, key)

\* round(x, 1) of x = 100 * c / t, in tenths: the nearest tenth, the even one
\* on a tie
RoundTenths(c, t) ==
    LET q == (1000 * c) \div t
        r == (1000 * c) % t
    IN  IF 2 * r > t THEN q + 1
        ELSE IF 2 * r < t THEN q
        ELSE IF q % 2 = 0 THEN q ELSE q + 1

\* Member._calculate_completion_percentage; the percentage is in tenths of a
\* percent
CalculateCompletionPercentage(p) ==
    LET total_projects == SumOver(p, 1, "total")
        completed_projects == SumOver(p, 1, "completed")
    IN  << IF total_projects > 0
           THEN RoundTenths(completed_projects, total_projects) ELSE 0,
           Max(total_projects - completed_projects, 0) >>

Pathway(name, course_id, level, pct, prog) ==
    [name |-> name, course_id |-> course_id,
     current_level |-> level[1],
     completion_percentage |-> pct[1],
     remaining_projects_in_level |-> level[2],
     remaining_projects_in_pathway |-> pct[2],
     status |-> prog]

\* x in list
InSeq(x, list) == \E i \in DOMAIN list : list[i] = x

\* self.summary = None
NoSummary == [total_pathways |-> 0, active_pathways |-> 0,
              completed_pathways |-> 0, most_active_pathway |-> "unset"]

\* Member.__init__
NewMember(username, completed_pathways) ==
    [username |-> username, completed_pathways |-> completed_pathways,
     next_projects |-> <<>>, current_pathways |-> <<>>, summary |-> NoSummary]

\* Member.add_pathway_progress
AddPathwayProgress(m, pathway_name, course_id, progression) ==
    LET pathway_info ==
            Pathway(pathway_name, course_id,
                    CalculateCurrentLevel(progression),
                    CalculateCompletionPercentage(progression),
                    IF InSeq(pathway_name, m.completed_pathways)
                    THEN "completed" ELSE "active")
    IN  [m EXCEPT !.current_pathways = Append(@, pathway_info)]

\* a project name: a display name as given, or the text
\* "Choose {n} elective(s) from {level_name}"
PlainName(text) == [kind |-> "plain", text |-> text, n |-> 0]
ChooseName(n, level_text) == [kind |-> "choose", text |-> level_text, n |-> n]

\* display names of the sequentials in a detail payload
DisplayNames == {"Ice Breaker", "Ice Breaker (Legacy)", "Evaluation Speech"}

\* display_name.replace("(Legacy)", "")
StripLegacy(text) == IF text = "Ice Breaker (Legacy)" THEN "Ice Breaker " ELSE text

\* 'speech' in display_name.lower()
HasSpeech(text) == text = "Evaluation Speech"

Project(name, type, pathway_name, course_id, duration, level) ==
    [name |-> name, type |-> type, pathway_name |-> pathway_name,
     course_id |-> course_id, duration |-> duration, level |-> level]

\* a child of a chapter
Child(type, complete, lib, name) ==
    [type |-> type, complete |-> complete, block_lib_type |-> lib, display_name |-> name]

\* a child of blocks
Chapter(type, level_name, min_req, children) ==
    [type |-> type, display_name |-> level_name, min_req_electives |-> min_req,
     children |-> children]

\* detailed_data['blocks']; an absent or empty dict is falsy
NoBlocks == [empty |-> TRUE, display_name |-> "Unknown", children |-> <<>>]
Blocks(name, chapters) == [empty |-> FALSE, display_name |-> name, children |-> chapters]

\* detailed_data.get('blocks', {})
GetBlocks(data) == IF "blocks" \in DOMAIN data THEN data.blocks ELSE NoBlocks

\* the inner for loop of _extract_next_projects over one chapter's children:
\* <<incomplete_projects, len(elective_choices), completed_electives>>
RECURSIVE ChildLoop(_, _, _, _, _)
ChildLoop(children, level_num, pathway_name, course_id, acc) ==
    IF children = <<>> THEN acc
    ELSE LET child == Head(children)
             project == Project(PlainName(StripLegacy(child.display_name)),
                                IF HasSpeech(child.display_name)
                                THEN "speech" ELSE "project",
                                pathway_name, course_id,
                                "Duration not specified", level_num)
             acc1 == IF child.type # "sequential" THEN acc
                     ELSE IF ~child.complete
                          THEN IF child.block_lib_type = "elective"
                               THEN <<acc[1], acc[2] + 1, acc[3]>>
                               ELSE <<Append(acc[1], project), acc[2], acc[3]>>
                          ELSE IF child.block_lib_type = "elective"
                               THEN <<acc[1], acc[2], acc[3] + 1>>
                               ELSE acc
         IN  ChildLoop(Tail(children), level_num, pathway_name, course_id, acc1)

\* the body of the outer loop for one chapter of type 'chapter': its
\* incomplete_projects, the elective placeholder included
ChapterProjects(chapter, pathway_name, course_id) ==
    LET level_num == ExtractLevelNumber(chapter.display_name)
        r == ChildLoop(chapter.children, level_num, pathway_name, course_id,
                       <<(<<>>), 0, 0>>)
        remaining_electives == chapter.min_req_electives - r[3]
    IN  IF r[2] > 0 /\ chapter.min_req_electives > 0
        THEN Append(r[1], Project(ChooseName(remaining_electives,
                                             chapter.display_name.text),
                                  "elective", pathway_name, course_id,
                                  "Varies by selection", level_num))
        ELSE r[1]

\* Member._extract_next_projects without the break: the projects of every
\* chapter
RECURSIVE ExtractNextProjects_NoBreak(_, _, _)
ExtractNextProjects_NoBreak(chapters, pathway_name, course_id) ==
    IF chapters = <<>> THEN <<>>
    ELSE IF Head(chapters).type # "chapter"
         THEN ExtractNextProjects_NoBreak(Tail(chapters), pathway_name, course_id)
    ELSE ChapterProjects(Head(chapters), pathway_name, course_id)
             \o ExtractNextProjects_NoBreak(Tail(chapters), pathway_name, course_id)

\* Member._extract_next_projects: the projects of the first chapter that has
\* incomplete ones
RECURSIVE ExtractNextProjects(_, _, _)
ExtractNextProjects(chapters, pathway_name, course_id) ==
    IF chapters = <<>> THEN <<>>
    ELSE IF Head(chapters).type # "chapter"
         THEN ExtractNextProjects(Tail(chapters), pathway_name, course_id)
    ELSE LET incomplete_projects ==
                 ChapterProjects(Head(chapters), pathway_name, course_id)
         IN  IF incomplete_projects # <<>> THEN incomplete_projects
             ELSE ExtractNextProjects(Tail(chapters), pathway_name, course_id)

\* Member.add_detailed_progress
AddDetailedProgress(m, course_id, detailed_data) ==
    LET blocks == GetBlocks(detailed_data) IN
    IF blocks.empty THEN m
    ELSE LET next_projects ==
                 ExtractNextProjects(blocks.children, blocks.display_name, course_id)
         IN  IF next_projects # <<>>
             THEN [m EXCEPT !.next_projects = Append(@, next_projects[1])]
             ELSE m

\* Member._get_total_pathway_count
GetTotalPathwayCount(m) ==
    Len(m.current_pathways) +
    Cardinality({ i \in DOMAIN m.completed_pathways :
        ~\E k \in DOMAIN m.current_pathways :
            m.current_pathways[k].name = m.completed_pathways[i] })

\* max(list, key=completion_percentage) keeps the last maximal item
PyMax_LastMaximal(list) ==
    CHOOSE i \in DOMAIN list :
        /\ \A j \in DOMAIN list :
              list[j].completion_percentage <= list[i].completion_percentage
        /\ \A j \in DOMAIN list :
              j > i => list[j].completion_percentage < list[i].completion_percentage

\* max(list, key=completion_percentage) on a non-empty list: the position of
\* the first item no later item exceeds and no earlier item equals
PyMax(list) ==
    CHOOSE i \in DOMAIN list :
        /\ \A j \in DOMAIN list :
              list[j].completion_percentage <= list[i].completion_percentage
        /\ \A j \in DOMAIN list :
              j < i => list[j].completion_percentage < list[i].completion_percentage

\* Member.generate_summary
GenerateSummary(m) ==
    LET active == { i \in DOMAIN m.current_pathways :
                        m.current_pathways[i].status = "active" }
        most_active_pathway ==
            IF m.current_pathways = <<>> THEN "None"
            ELSE m.current_pathways[PyMax(m.current_pathways)].name
    IN  [m EXCEPT !.summary =
            [total_pathways |-> GetTotalPathwayCount(m),
             active_pathways |-> Cardinality(active),
             completed_pathways |-> Len(m.completed_pathways),
             most_active_pathway |-> most_active_pathway]]

-----------------------------------------------------------------------------
(* service/pathway_analyzer_service.py: PathwayAnalyzerService *)

\* name.replace(" ", "").lower() of a project name
NormalizeStr(name) ==
    IF name.kind = "choose" THEN "choose-elective(s)from-level"
    ELSE IF name.text \in {"Ice Breaker", "Ice Breaker "} THEN "icebreaker"
    ELSE IF name.text = "Ice Breaker (Legacy)" THEN "icebreaker(legacy)"
    ELSE IF name.text = "Evaluation Speech" THEN "evaluationspeech"
    ELSE name.text

\* "elective" in norm_proj_name
MentionsElective(name) == name.kind = "choose"

\* a project of a level in a pathway file; None stands for an absent key
CatalogProject(text, duration, type, options) ==
    [name |-> PlainName(text), duration |-> duration, type |-> type,
     elective_options |-> options]

\* get_project_details returned nothing
NoDetails == [found |-> FALSE, duration |-> None, type |-> None]

\* the for loop of get_project_details
RECURSIVE FindDetails(_, _)
FindDetails(projects, project_name) ==
    IF projects = <<>> THEN NoDetails
    ELSE LET project == Head(projects)
             duration == IF project.duration = None
                         THEN "Duration not specified" ELSE project.duration
         IN  IF NormalizeStr(project.name) = NormalizeStr(project_name)
             THEN [found |-> TRUE, duration |-> duration, type |-> project.type]
             ELSE IF /\ project.type = "elective"
                     /\ ~MentionsElective(project_name)
                     /\ \E i \in DOMAIN project.elective_options :
                           NormalizeStr(PlainName(project.elective_options[i]))
                               = NormalizeStr(project_name)
                  THEN [found |-> TRUE, duration |-> duration, type |-> None]
                  ELSE FindDetails(Tail(projects), project_name)

\* PathwayAnalyzerService.get_project_details; pd is pathways_data, a pathway
\* file being a function from level numbers to the level's projects.
\* self.pathways_data.get(pathway_name) is None for an unknown pathway and
\* the .get on it raises AttributeError.
GetProjectDetails(pd, pathway_name, project_name, level) ==
    IF pathway_name \notin DOMAIN pd THEN Raise("AttributeError")
    ELSE IF level \notin DOMAIN pd[pathway_name] THEN Return(NoDetails)
    ELSE Return(FindDetails(pd[pathway_name][level], project_name))

\* PathwayAnalyzerService.enrich_project_with_details
EnrichProjectWithDetails(pd, project) ==
    LET details == GetProjectDetails(pd, project.pathway_name, project.name,
                                     project.level)
    IN  IF Raised(details) THEN details
        ELSE IF ~details.value.found THEN Return(project)
        ELSE Return([project EXCEPT
                 !.duration = IF details.value.duration \notin {None, ""}
                              THEN details.value.duration ELSE @,
                 !.type = IF details.value.type \notin {None, ""}
                          THEN details.value.type ELSE @])

-----------------------------------------------------------------------------
(* service/toastmasters_data_service.py: the aggregation *)

\* data_output.get(key, [])
GetList(d, key) == IF key \in DOMAIN d THEN d[key] ELSE <<>>

\* the position of username in the members dict (kept in insertion order),
\* 0 when it is not a key
IndexOf(ms, username) ==
    IF \E i \in DOMAIN ms : ms[i].username = username
    THEN CHOOSE i \in DOMAIN ms : ms[i].username = username
    ELSE 0

\* Step 1 of build_member_index over the overview results, in order
RECURSIVE OverviewLoop(_, _)
OverviewLoop(results, ms) ==
    IF results = <<>> THEN Return(ms)
    ELSE LET result == Head(results) IN
         IF result.username = None THEN Raise("KeyError")
         ELSE OverviewLoop(Tail(results),
                  IF IndexOf(ms, result.username) = 0
                  THEN Append(ms, NewMember(result.username, result.completed_paths))
                  ELSE ms)

\* Step 2 without `if username in members`: a result of an unknown username
\* makes a Member
RECURSIVE ProgressLoop_AddsUnknown(_, _)
ProgressLoop_AddsUnknown(results, ms) ==
    IF results = <<>> THEN Return(ms)
    ELSE LET result == Head(results)
             known == IF IndexOf(ms, result.username) = 0
                      THEN Append(ms, NewMember(result.username, <<>>)) ELSE ms
             i == IndexOf(known, result.username)
         IN  IF result.username = None THEN Raise("KeyError")
             ELSE IF result.path_name = None \/ result.course_id = None
                  THEN Raise("KeyError")
             ELSE ProgressLoop_AddsUnknown(Tail(results),
                      [known EXCEPT ![i] = AddPathwayProgress(@, result.path_name,
                                               result.course_id, result.progression)])

\* Step 2 over the progress results, in order
RECURSIVE ProgressLoop(_, _)
ProgressLoop(results, ms) ==
    IF results = <<>> THEN Return(ms)
    ELSE LET result == Head(results)
             i == IndexOf(ms, result.username)
         IN  IF result.username = None THEN Raise("KeyError")
             ELSE IF i = 0 THEN ProgressLoop(Tail(results), ms)
             ELSE IF result.path_name = None \/ result.course_id = None
                  THEN Raise("KeyError")
             ELSE ProgressLoop(Tail(results),
                      [ms EXCEPT ![i] = AddPathwayProgress(@, result.path_name,
                                            result.course_id, result.progression)])

\* Step 3 over the progress_detail entries, in order
RECURSIVE DetailLoop(_, _)
DetailLoop(entries, ms) ==
    IF entries = <<>> THEN ms
    ELSE LET detail_entry == Head(entries)
             i == IndexOf(ms, detail_entry.username)
         IN  DetailLoop(Tail(entries),
                 IF i = 0 THEN ms
                 ELSE [ms EXCEPT ![i] = AddDetailedProgress(@, detail_entry.course_id,
                                                            detail_entry.data)])

\* Step 4 for one member: its next_projects enriched in place
EnrichMember(pd, m) ==
    LET enriched == [k \in DOMAIN m.next_projects |->
                        EnrichProjectWithDetails(pd, m.next_projects[k])]
    IN  IF \E k \in DOMAIN enriched : Raised(enriched[k])
        THEN Raise("AttributeError")
        ELSE Return([m EXCEPT !.next_projects =
                        [k \in DOMAIN enriched |-> enriched[k].value]])

\* Step 1, from the raw dataset
Step1Overview(d) == OverviewLoop(FlattenResults(GetList(d, "overview")), <<>>)

\* Step 2, after the outcome o of step 1: an exception ends the call
Step2Progress(d, o) ==
    IF Raised(o) THEN o
    ELSE ProgressLoop(FlattenResults(GetList(d, "progress")), o.value)

\* Step 3
Step3Detail(d, o) ==
    IF Raised(o) THEN o
    ELSE Return(DetailLoop(GetList(d, "progress_detail"), o.value))

\* Step 4: `if self.pathway_analyzer_service` holds, the analyzer was created
\* at the top of the call (env_manager.pathways_directory is always set)
Step4Enrich(pd, o) ==
    IF Raised(o) THEN o
    ELSE IF \E i \in DOMAIN o.value : Raised(EnrichMember(pd, o.value[i]))
         THEN Raise("AttributeError")
         ELSE Return([i \in DOMAIN o.value |-> EnrichMember(pd, o.value[i]).value])

\* Step 5
Step5Summaries(o) ==
    IF Raised(o) THEN o
    ELSE Return([i \in DOMAIN o.value |-> GenerateSummary(o.value[i])])

\* ToastmastersDataService.build_member_index; pd is the loaded
\* pathways_data.  Each step works on the outcome of the step before it.
BuildMemberIndex(d, pd) ==
    CHOOSE out \in
        { Step5Summaries(s4) : s4 \in
            { Step4Enrich(pd, s3) : s3 \in
                { Step3Detail(d, s2) : s2 \in
                    { Step2Progress(d, s1) : s1 \in {Step1Overview(d)} } } } } : TRUE

-----------------------------------------------------------------------------
(* model/club.py: Club, and build_club_index *)

\* self.statistics = None, self.distribution = None
NoStatistics == [total_members |-> 0, active_members |-> 0,
                 completed_pathways_total |-> 0, summary_generated_at |-> -1]
NoDistribution == [pathway_distribution |-> EmptyDict, level_distribution |-> EmptyDict,
                   generated |-> FALSE]

\* Club.__init__(club_id, club_name, dashboard_club_id, members=None) called
\* with the positional arguments args; `members or {}`
NewClub(args) ==
    IF Len(args) < 3 \/ Len(args) > 4 THEN Raise("TypeError")
    ELSE Return([club_id |-> args[1], club_name |-> args[2],
                 dashboard_club_id |-> args[3],
                 members |-> IF Len(args) = 4 THEN args[4] ELSE <<>>,
                 statistics |-> NoStatistics, distribution |-> NoDistribution])

\* the (member, pathway) positions whatever the status
ActivePathways_AllStatuses(ms) ==
    UNION { {i} \X DOMAIN ms[i].current_pathways : i \in DOMAIN ms }

\* the (member, pathway) positions with status "active"
ActivePathways(ms) ==
    { ik \in UNION { {i} \X DOMAIN ms[i].current_pathways : i \in DOMAIN ms } :
        ms[ik[1]].current_pathways[ik[2]].status = "active" }

\* the Counter over key of the active pathways, as a dict
CounterOf(ms, key) ==
    LET keys == { ms[ik[1]].current_pathways[ik[2]][key] : ik \in ActivePathways(ms) }
    IN  [k \in keys |->
            Cardinality({ ik \in ActivePathways(ms) :
                ms[ik[1]].current_pathways[ik[2]][key] = k })]

RECURSIVE SumCompleted(_)
SumCompleted(ms) ==
    IF ms = <<>> THEN 0
    ELSE Head(ms).summary.completed_pathways + SumCompleted(Tail(ms))

\* Club.generate_summary(member_enrollment_status) called with the positional
\* arguments args at time clock
ClubGenerateSummary(c, args, clock) ==
    IF Len(args) # 1 THEN Raise("TypeError")
    ELSE LET member_enrollment_status == args[1]
             paid_members == SelectSeq(member_enrollment_status,
                                       LAMBDA e : e.is_paid)
             enrolled == SelectSeq(paid_members, LAMBDA e : e.is_enrolled)
         IN  Return([c EXCEPT
                 !.statistics = [total_members |-> Len(paid_members),
                                 active_members |-> Len(enrolled),
                                 completed_pathways_total |-> SumCompleted(c.members),
                                 summary_generated_at |-> clock],
                 !.distribution = [pathway_distribution |-> CounterOf(c.members, "name"),
                                   level_distribution |-> CounterOf(c.members, "current_level"),
                                   generated |-> TRUE]])

\* ToastmastersDataService.build_club_index: Club(club_id, club_name, members)
\* binds members to dashboard_club_id, and club.generate_summary() is called
\* without its argument
BuildClubIndex(cid, cname, ms, clock) ==
    LET c == NewClub(<<cid, cname, ms>>) IN
    IF Raised(c) THEN c
    ELSE LET summarized == ClubGenerateSummary(c.value, <<>>, clock) IN
         IF Raised(summarized) THEN summarized
         ELSE Return([k \in {cid} |-> summarized.value])

\* entries in one member_enrollment_status list
MaxEnrollment == 2

EnrollmentLists ==
    UNION { [1..n -> [is_paid : BOOLEAN, is_enrolled : BOOLEAN]] : n \in 0..MaxEnrollment }

\* club.generate_summary(member_enrollment_status) on the Club held under
\* club_id
ClubSummarize ==
    /\ club_id \in DOMAIN club
    /\ ~club[club_id].distribution.generated
    /\ \E member_enrollment_status \in EnrollmentLists :
       \E summarized \in {ClubGenerateSummary(club[club_id],
                                              <<member_enrollment_status>>, now)} :
          /\ ~Raised(summarized)
          /\ club' = [club EXCEPT ![club_id] = summarized.value]
    /\ UNCHANGED <<fetchVars, authVars>>
    /\ UNCHANGED <<member, call, members, pathways_data, main>>

-----------------------------------------------------------------------------
(* Calls on one Member object *)

\* pathways one member is given progress for
MaxPathways == 1

PathwayNames == {"Path A", "Path B"}

NoCall == [op |-> "none", pathway_name |-> None, progression |-> <<>>]

\* member.add_pathway_progress(pathway_name, course_id, progression)
MemberAddPathwayProgress ==
    /\ Len(member.current_pathways) < MaxPathways
    /\ member.summary = NoSummary
    /\ \E pathway_name \in PathwayNames, progression \in Progressions :
          /\ member' = AddPathwayProgress(member, pathway_name, "C1", progression)
          /\ call' = [op |-> "add_pathway_progress", pathway_name |-> pathway_name,
                      progression |-> progression]
    /\ UNCHANGED <<fetchVars, authVars>>
    /\ UNCHANGED <<members, club, pathways_data, main>>

\* member.generate_summary()
MemberGenerateSummary ==
    /\ member.summary = NoSummary
    /\ member' = GenerateSummary(member)
    /\ call' = [call EXCEPT !.op = "generate_summary"]
    /\ UNCHANGED <<fetchVars, authVars>>
    /\ UNCHANGED <<members, club, pathways_data, main>>

\* chapters in one detail payload, and children in one chapter
MaxChapters == 2
MaxChildren == 2

\* the children of a chapter: sequentials, complete or not, core or elective,
\* and a child of another type
Children ==
    { Child("sequential", c, lib, n) :
        c \in BOOLEAN, lib \in {"core", "elective"},
        n \in {"Ice Breaker (Legacy)", "Evaluation Speech"} }
    \cup { Child("vertical", FALSE, "core", "Ice Breaker") }

\* the children of blocks: chapters named Level 1 or Level 2, and a child of
\* another type
Chapters ==
    { Chapter("chapter", ln, min_req, children) :
        ln \in { LevelName("Level 1", TRUE, "1"), LevelName("Level 2", TRUE, "2") },
        min_req \in 0..2,
        children \in UNION { [1..k -> Children] : k \in 0..MaxChildren } }
    \cup { Chapter("course", LevelName("Overview", FALSE, ""), 0,
                   << Child("sequential", FALSE, "core", "Evaluation Speech") >>) }

\* the detailed_data payloads: without blocks, with empty blocks, with blocks
DetailedData ==
    { EmptyDict, [blocks |-> NoBlocks] } \cup
    { [blocks |-> Blocks("Path A", chapters)] :
        chapters \in UNION { [1..k -> Chapters] : k \in 0..MaxChapters } }

NoDetailCall == [op |-> "none", data |-> EmptyDict, next_projects |-> <<>>]

\* member.add_detailed_progress(course_id, detailed_data); call keeps the
\* argument and the list _extract_next_projects returned
MemberAddDetailedProgress ==
    /\ call.op = "none"
    /\ \E detailed_data \in DetailedData :
          /\ member' = AddDetailedProgress(member, "C1", detailed_data)
          /\ call' = [op |-> "add_detailed_progress", data |-> detailed_data,
                      next_projects |->
                          LET blocks == GetBlocks(detailed_data) IN
                          IF blocks.empty THEN <<>>
                          ELSE ExtractNextProjects(blocks.children,
                                                   blocks.display_name, "C1")]
    /\ UNCHANGED <<fetchVars, authVars>>
    /\ UNCHANGED <<members, club, pathways_data, main>>

\* main has not been called
MainIdle == [pc |-> "idle", outcome |-> -1, steps |-> <<>>]

\* ToastmastersManager.__init__: self.members = {}, self.club = {}; main has
\* not started
InitAggIdle ==
    /\ member = NewMember("jdoe", <<>>)
    /\ call = NoCall
    /\ members = <<>>
    /\ club = EmptyDict
    /\ pathways_data = EmptyDict
    /\ main = MainIdle

-----------------------------------------------------------------------------
(* ToastmastersManager.build_indexes over a raw dataset *)

\* results on the progress page of a raw dataset
MaxProgress == 2

\* calls of build_indexes in one run of the model
MaxRuns == 2

Username == {"jdoe", "asmith"}

\* progression payloads of the raw datasets: none, half, all of Level 1, and
\* Level 1 approved with Level 2 not started
DatasetProgressions ==
    { <<>>,
      <<LevelEntry(LevelName("Level 1", TRUE, "1"), FALSE, 1, 2)>>,
      <<LevelEntry(LevelName("Level 1", TRUE, "1"), FALSE, 2, 2)>> }

ProgressEntries ==
    { FullResult(u, "C1", pn, prog, <<>>) :
        u \in Username, pn \in PathwayNames, prog \in DatasetProgressions }

\* the overview results: one member; two, one of them with a completed
\* pathway; one member listed twice
OverviewLists ==
    { <<FullResult("jdoe", None, None, <<>>, <<>>)>>,
      <<FullResult("jdoe", None, None, <<>>, <<"Path A">>),
        FullResult("asmith", None, None, <<>>, <<>>)>>,
      <<FullResult("jdoe", None, None, <<>>, <<>>),
        FullResult("jdoe", None, None, <<>>, <<"Path B">>)>> }

\* progress_detail payloads: no blocks; Level 1 with an incomplete project;
\* Level 1 complete and Level 2 with electives to choose
DetailData ==
    { [blocks |-> NoBlocks],
      [blocks |-> Blocks("Path A",
          << Chapter("chapter", LevelName("Level 1", TRUE, "1"), 0,
                     << Child("sequential", TRUE, "core", "Evaluation Speech"),
                        Child("sequential", FALSE, "core", "Ice Breaker (Legacy)") >>) >>)],
      [blocks |-> Blocks("Path B",
          << Chapter("chapter", LevelName("Level 1", TRUE, "1"), 0,
                     << Child("sequential", TRUE, "core", "Ice Breaker") >>),
             Chapter("chapter", LevelName("Level 2", TRUE, "2"), 1,
                     << Child("sequential", TRUE, "elective", "Evaluation Speech"),
                        Child("sequential", FALSE, "elective", "Ice Breaker") >>) >>)] }

DetailLists ==
    {<<>>} \cup
    { <<[username |-> u, course_id |-> "C1", data |-> dd]>> :
        u \in Username, dd \in DetailData }

\* the dict fetch_data_from_endpoints leaves in data_output: one page per
\* primary endpoint and the detail list
RawDataset(ov, pr, de) ==
    [k \in {"overview", "progress", "progress_detail"} |->
        IF k = "overview" THEN <<Page(TRUE, ov, None)>>
        ELSE IF k = "progress" THEN <<Page(TRUE, pr, None)>>
        ELSE de]

RawDatasets ==
    { RawDataset(ov, pr, <<>>) :
        ov \in OverviewLists,
        pr \in UNION { [1..n -> ProgressEntries] : n \in 0..MaxProgress } }
    \cup
    { RawDataset(<<FullResult("jdoe", None, None, <<>>, <<>>)>>,
                 <<FullResult("jdoe", "C1", "Path A", <<>>, <<>>)>>, de) :
        de \in DetailLists }

\* what load_pathway_data may leave in pathways_data: nothing (no readable
\* index file), or the file of Path A
Catalogs ==
    { EmptyDict,
      [k \in {"Path A"} |->
          [l \in {1} |-> << CatalogProject("Ice Breaker", "5-7 minutes", "speech", <<>>) >>]] }

NoRuns == [op |-> "build_indexes", runs |-> 0, raw |-> EmptyDict,
           member_index |-> <<>>, club_index |-> <<>>]

\* ToastmastersManager.build_indexes: an exception of build_member_index
\* leaves both attributes as they were, one of build_club_index leaves
\* self.club as it was
BuildIndexes ==
    /\ call.op = "build_indexes"
    /\ call.runs < MaxRuns
    /\ \E mi \in {BuildMemberIndex(data_output, pathways_data)} :
       \E ci \in {IF Raised(mi) THEN mi
                   ELSE BuildClubIndex(club_id, club_name, mi.value, now)} :
           /\ members' = IF Raised(mi) THEN members ELSE mi.value
           /\ club' = IF Raised(ci) THEN club ELSE ci.value
           /\ call' = [call EXCEPT !.runs = @ + 1,
                                   !.raw = IF call.runs = 0 THEN data_output ELSE @,
                                   !.member_index = Append(@, mi),
                                   !.club_index = Append(@, ci)]
    /\ UNCHANGED <<fetchVars, authVars>>
    /\ UNCHANGED <<member, pathways_data, main>>

-----------------------------------------------------------------------------
(* main.py: main, and the manager's save_data and generate_reports *)

\* return 1 from the except clause of main
MainFailed(m) == [m EXCEPT !.pc = "done", !.outcome = 1]

\* main reaches the call of a later step
MainCalls(m, step, pc) == [m EXCEPT !.pc = pc, !.steps = Append(@, step)]

\* main up to `await toastmasters_manager.authenticate()`; building the
\* EnvironmentManager raises ValueError when a credential is empty
MainStart ==
    /\ main.pc = "idle"
    /\ \E setup_ok \in BOOLEAN :
          main' = IF setup_ok THEN MainCalls(main, "authenticate", "authenticate")
                  ELSE MainFailed(main)
    /\ UNCHANGED <<fetchVars, authVars>>
    /\ UNCHANGED <<member, call, members, club, pathways_data>>

\* the call toastmasters_manager.authenticate() of main
MainAuthenticate ==
    /\ main.pc = "authenticate"
    /\ mauth.calls = 0
    /\ MgrAuthenticate(FALSE)

\* authenticate raised: the exception reaches main's except clause
AuthenticationFailed(outcome) == outcome = "raised"

\* main after authenticate: on to fetch_data_from_endpoints, or return 1
MainAfterAuthenticate ==
    /\ main.pc = "authenticate"
    /\ mauth.calls = 1
    /\ mauth.pc = "done"
    /\ main' = IF AuthenticationFailed(mauth.outcome) THEN MainFailed(main)
               ELSE MainCalls(main, "fetch_data_from_endpoints", "fetch")
    /\ UNCHANGED <<fetchVars, authVars>>
    /\ UNCHANGED <<member, call, members, club, pathways_data>>

\* the call toastmasters_manager.fetch_data_from_endpoints() of main
MainFetch ==
    /\ main.pc = "fetch"
    /\ FetchBegin

\* main without the test of the result
FetchFailed_Never(result) == FALSE

\* `if not result`
FetchFailed(result) == result = "False"

\* ToastmastersManager.save_data with SAVE_ENDPOINT_DATA on: a failed write of
\* an endpoint file is a warning, one of a summary file raises RuntimeError
SaveData(members_ok, club_ok) ==
    IF ~members_ok \/ ~club_ok THEN Raise("RuntimeError") ELSE Return(None)

\* ToastmastersManager.generate_reports: nothing to do without members or
\* club; otherwise report_service.generate_reports(self.club) lacks its
\* member_enrollment_status argument and the TypeError is raised again
GenerateReports(ms, cl) ==
    IF ms = <<>> \/ DOMAIN cl = {} THEN Return(None) ELSE Raise("TypeError")

\* main from the return of fetch_data_from_endpoints to its own return:
\* RuntimeError on a False result, else build_indexes, save_data and
\* generate_reports, each reached only if the one before it returned
MainFinish ==
    /\ main.pc = "fetch"
    /\ fetch.pc = "done"
    /\ IF FetchFailed(fetch.result)
       THEN /\ main' = MainFailed(main)
            /\ UNCHANGED <<members, club>>
       ELSE \E mi \in {BuildMemberIndex(data_output, pathways_data)} :
            \E ci \in {IF Raised(mi) THEN mi
                       ELSE BuildClubIndex(club_id, club_name, mi.value, now)} :
            \E members_ok, club_ok \in BOOLEAN :
               /\ members' = IF Raised(mi) THEN members ELSE mi.value
               /\ club' = IF Raised(ci) THEN club ELSE ci.value
               /\ LET built == MainCalls(main, "build_indexes", "build")
                      saved == MainCalls(built, "save_data", "save")
                      reported == MainCalls(saved, "generate_reports", "reports")
                  IN  main' =
                        IF Raised(ci) THEN MainFailed(built)
                        ELSE IF Raised(SaveData(members_ok, club_ok))
                             THEN MainFailed(saved)
                        ELSE IF Raised(GenerateReports(members', club'))
                             THEN MainFailed(reported)
                        ELSE [reported EXCEPT !.pc = "done", !.outcome = 0]
    /\ UNCHANGED <<fetchVars, authVars>>
    /\ UNCHANGED <<member, call, pathways_data>>

-----------------------------------------------------------------------------
(* Specifications *)

InitFetch(s) ==
    /\ srv = s
    /\ ptask = [e \in PrimaryEndpoints |-> NewTask]
    /\ sent = [e \in PrimaryEndpoints |-> 0]
    /\ primary = [pc |-> "idle", value |-> EmptyDict]
    /\ combos = <<>>
    /\ dtask = <<>>
    /\ detail = [pc |-> "idle", value |-> <<>>]
    /\ data_output = EmptyDict
    /\ fetch = [pc |-> "start", result |-> None]
    /\ InitAuthIdle
    /\ InitAggIdle

InitPrimary == InitFetch("endless")

NextPrimary ==
    \/ FetchBegin
    \/ \E e \in PrimaryEndpoints : ThreadResponse(e)
    \/ \E e \in PrimaryEndpoints : ResumePrimary(e)
    \/ \E e \in PrimaryEndpoints : PaginateStep(e)
    \/ PrimaryJoin

SpecPrimary == InitPrimary /\ [][NextPrimary]_vars

\* the primary phase with its scheduling: a request handed to the executor
\* ends (requests.get has a timeout and make_request catches every
\* exception), the event loop resumes a coroutine whose await is done, and
\* the blocking loop of handle_pagination goes on
SpecPrimaryFair ==
    /\ SpecPrimary
    /\ WF_vars(FetchBegin)
    /\ \A e \in PrimaryEndpoints :
          /\ WF_vars(ThreadResponse(e))
          /\ WF_vars(ResumePrimary(e))
          /\ WF_vars(PaginateStep(e))
    /\ WF_vars(PrimaryJoin)

InitFetchFinite == InitFetch("finite")

NextFetch ==
    \/ FetchBegin
    \/ \E e \in PrimaryEndpoints : ThreadResponse(e)
    \/ \E e \in PrimaryEndpoints : ResumePrimary(e)
    \/ \E e \in PrimaryEndpoints : PaginateStep(e)
    \/ PrimaryJoin
    \/ FetchAfterPrimary
    \/ FetchPrimaryFailed
    \/ \E i \in DOMAIN dtask : DetailThreadResponse(i)
    \/ \E i \in DOMAIN dtask : DetailResume(i)
    \/ DetailJoin
    \/ FetchEnd

SpecFetch == InitFetchFinite /\ [][NextFetch]_vars

\* the pairs a caller may hand to get_detailed_progress
Pairs == {<<"jdoe", "C1">>, <<"asmith", "C1">>}

PairLists == UNION {[1..n -> Pairs] : n \in 0..MaxPairs}

InitDetail ==
    /\ srv = "finite"
    /\ ptask = [e \in PrimaryEndpoints |-> NewTask]
    /\ sent = [e \in PrimaryEndpoints |-> 0]
    /\ primary = [pc |-> "idle", value |-> EmptyDict]
    /\ combos \in PairLists
    /\ dtask = <<>>
    /\ detail = [pc |-> "idle", value |-> <<>>]
    /\ data_output = EmptyDict
    /\ fetch = [pc |-> "detail", result |-> None]
    /\ InitAuthIdle
    /\ InitAggIdle

NextDetail ==
    \/ DetailGather
    \/ \E i \in DOMAIN dtask : DetailThreadResponse(i)
    \/ \E i \in DOMAIN dtask : DetailResume(i)
    \/ DetailJoin

SpecDetail == InitDetail /\ [][NextDetail]_vars

InitFetchIdle ==
    /\ srv = "finite"
    /\ ptask = [e \in PrimaryEndpoints |-> NewTask]
    /\ sent = [e \in PrimaryEndpoints |-> 0]
    /\ primary = [pc |-> "idle", value |-> EmptyDict]
    /\ combos = <<>>
    /\ dtask = <<>>
    /\ detail = [pc |-> "idle", value |-> <<>>]
    /\ data_output = EmptyDict
    /\ fetch = [pc |-> "start", result |-> None]

InitSession ==
    /\ InitFetchIdle
    /\ InitAggIdle
    /\ now = 0
    /\ file \in InitialFiles
    /\ club_name = "Shaw Floor Speakers"
    /\ loaded = NotLoaded
    /\ user_id = None
    /\ club_id = None
    /\ session_data = NoSession
    /\ mauth = Idle
    /\ flow = NewFlow

NextSession ==
    \/ Tick
    \/ Load
    \/ Save

SpecSession == InitSession /\ [][NextSession]_vars

InitAuth ==
    /\ InitFetchIdle
    /\ InitAggIdle
    /\ now = 0
    /\ file \in InitialFiles
    /\ club_name \in ClubNames
    /\ loaded = NotLoaded
    /\ user_id = None
    /\ club_id = None
    /\ session_data = NoSession
    /\ mauth = Idle
    /\ flow = NewFlow

NextAuth ==
    \/ Tick
    \/ \E force_auth \in BOOLEAN : MgrAuthenticate(force_auth)
    \/ FlowLaunch
    \/ FlowNavigate
    \/ FlowUserId
    \/ FlowClubId
    \/ FlowDashboard
    \/ FlowEnrollment
    \/ FlowSave
    \/ MgrAuthFinish

SpecAuth == InitAuth /\ [][NextAuth]_vars

InitMember ==
    /\ InitFetchIdle
    /\ InitAuthIdle
    /\ member \in { NewMember("jdoe", cp) : cp \in {<<>>, <<"Path A">>} }
    /\ call = NoCall
    /\ members = <<>>
    /\ club = EmptyDict
    /\ pathways_data = EmptyDict
    /\ main = MainIdle

NextMember ==
    \/ MemberAddPathwayProgress
    \/ MemberGenerateSummary

SpecMember == InitMember /\ [][NextMember]_vars

\* one add_detailed_progress call on a new Member
InitNextProjects ==
    /\ InitFetchIdle
    /\ InitAuthIdle
    /\ member = NewMember("jdoe", <<>>)
    /\ call = NoDetailCall
    /\ members = <<>>
    /\ club = EmptyDict
    /\ pathways_data = EmptyDict
    /\ main = MainIdle

NextNextProjects == MemberAddDetailedProgress

SpecNextProjects == InitNextProjects /\ [][NextNextProjects]_vars

\* the manager after a fetch that left a raw dataset, authenticated from a
\* stored session
InitAggregate ==
    /\ srv = "finite"
    /\ ptask = [e \in PrimaryEndpoints |-> NewTask]
    /\ sent = [e \in PrimaryEndpoints |-> 0]
    /\ primary = [pc |-> "idle", value |-> EmptyDict]
    /\ combos = <<>>
    /\ dtask = <<>>
    /\ detail = [pc |-> "idle", value |-> <<>>]
    /\ data_output \in RawDatasets
    /\ fetch = [pc |-> "done", result |-> "True"]
    /\ now = 0
    /\ file = Blank("missing")
    /\ club_name = "Shaw Floor Speakers"
    /\ loaded = NotLoaded
    /\ user_id = "U1"
    /\ club_id = "uuid-shaw"
    /\ session_data = NoSession
    /\ mauth = Idle
    /\ flow = NewFlow
    /\ member = NewMember("jdoe", <<>>)
    /\ call = NoRuns
    /\ members = <<>>
    /\ club = EmptyDict
    /\ pathways_data \in Catalogs
    /\ main = MainIdle

NextAggregate ==
    \/ Tick
    \/ BuildIndexes

SpecAggregate == InitAggregate /\ [][NextAggregate]_vars

\* a Club constructed with club_id, club_name, dashboard_club_id and the
\* members of a member index
InitClub ==
    /\ InitFetchIdle
    /\ now = 0
    /\ file = Blank("missing")
    /\ club_name = "Shaw Floor Speakers"
    /\ loaded = NotLoaded
    /\ user_id = "U1"
    /\ club_id = "uuid-shaw"
    /\ session_data = NoSession
    /\ mauth = Idle
    /\ flow = NewFlow
    /\ member = NewMember("jdoe", <<>>)
    /\ call = NoCall
    /\ members \in { BuildMemberIndex(d, EmptyDict).value :
                        d \in { r \in RawDatasets : r["progress_detail"] = <<>> } }
    /\ club = [k \in {club_id} |->
                  NewClub(<<club_id, club_name, "D1", members>>).value]
    /\ pathways_data = EmptyDict
    /\ main = MainIdle

NextClub ==
    \/ Tick
    \/ ClubSummarize

SpecClub == InitClub /\ [][NextClub]_vars

\* main.py: `result = fetch_data_from_endpoints()` has returned a true
\* value and build_indexes is called
BuildIndexesAfterFetch ==
    /\ fetch.pc = "done"
    /\ ~FetchFailed(fetch.result)
    /\ BuildIndexes

\* the authenticated manager before its fetch, against a server whose
\* progress feed repeats (username, course) pairs
InitPipeline ==
    /\ srv = "feed"
    /\ ptask = [e \in PrimaryEndpoints |-> NewTask]
    /\ sent = [e \in PrimaryEndpoints |-> 0]
    /\ primary = [pc |-> "idle", value |-> EmptyDict]
    /\ combos = <<>>
    /\ dtask = <<>>
    /\ detail = [pc |-> "idle", value |-> <<>>]
    /\ data_output = EmptyDict
    /\ fetch = [pc |-> "start", result |-> None]
    /\ now = 0
    /\ file = Blank("missing")
    /\ club_name = "Shaw Floor Speakers"
    /\ loaded = NotLoaded
    /\ user_id = "U1"
    /\ club_id = "uuid-shaw"
    /\ session_data = NoSession
    /\ mauth = Idle
    /\ flow = NewFlow
    /\ member = NewMember("jdoe", <<>>)
    /\ call = NoRuns
    /\ members = <<>>
    /\ club = EmptyDict
    /\ pathways_data \in Catalogs
    /\ main = MainIdle

NextPipeline ==
    \/ FetchBegin
    \/ \E e \in PrimaryEndpoints : ThreadResponse(e)
    \/ \E e \in PrimaryEndpoints : ResumePrimary(e)
    \/ \E e \in PrimaryEndpoints : PaginateStep(e)
    \/ PrimaryJoin
    \/ FetchAfterPrimary
    \/ FetchPrimaryFailed
    \/ \E i \in DOMAIN dtask : DetailThreadResponse(i)
    \/ \E i \in DOMAIN dtask : DetailResume(i)
    \/ DetailJoin
    \/ FetchEnd
    \/ BuildIndexesAfterFetch

SpecPipeline == InitPipeline /\ [][NextPipeline]_vars

\* a run of main against a server of one-page endpoints
InitMain ==
    /\ srv = "single"
    /\ ptask = [e \in PrimaryEndpoints |-> NewTask]
    /\ sent = [e \in PrimaryEndpoints |-> 0]
    /\ primary = [pc |-> "idle", value |-> EmptyDict]
    /\ combos = <<>>
    /\ dtask = <<>>
    /\ detail = [pc |-> "idle", value |-> <<>>]
    /\ data_output = EmptyDict
    /\ fetch = [pc |-> "start", result |-> None]
    /\ now = 0
    /\ file \in InitialFiles
    /\ club_name \in ClubNames
    /\ loaded = NotLoaded
    /\ user_id = None
    /\ club_id = None
    /\ session_data = NoSession
    /\ mauth = Idle
    /\ flow = NewFlow
    /\ member = NewMember("jdoe", <<>>)
    /\ call = NoCall
    /\ members = <<>>
    /\ club = EmptyDict
    /\ pathways_data \in Catalogs
    /\ main = MainIdle

NextMain ==
    \/ MainStart
    \/ MainAuthenticate
    \/ FlowLaunch
    \/ FlowNavigate
    \/ FlowUserId
    \/ FlowClubId
    \/ FlowDashboard
    \/ FlowEnrollment
    \/ FlowSave
    \/ MgrAuthFinish
    \/ MainAfterAuthenticate
    \/ MainFetch
    \/ \E e \in PrimaryEndpoints : ThreadResponse(e)
    \/ \E e \in PrimaryEndpoints : ResumePrimary(e)
    \/ PrimaryJoin
    \/ FetchAfterPrimary
    \/ FetchPrimaryFailed
    \/ \E i \in DOMAIN dtask : DetailThreadResponse(i)
    \/ \E i \in DOMAIN dtask : DetailResume(i)
    \/ DetailJoin
    \/ FetchEnd
    \/ MainFinish

SpecMain == InitMain /\ [][NextMain]_vars

-----------------------------------------------------------------------------
(* Claims about pagination and the primary phase (SpecPrimary) *)

\* C1: whatever the server answers, handle_pagination counts at most 20 pages,
\* the initial one included, and makes at most 19 follow-up requests.
C1_PageCap ==
    \A e \in PrimaryEndpoints :
        /\ ptask[e].page_count <= 20
        /\ sent[e] <= 1 + 19
        /\ Len(ptask[e].endpoint_data) <= 20

\* C1 witness: the loop ended at the limit with a cursor still in hand.
C1_Witness ==
    \E e \in PrimaryEndpoints :
        /\ ptask[e].pc = "returned"
        /\ ptask[e].page_count = 20
        /\ ptask[e].next_url = Url
        /\ sent[e] = 20

\* the first page of an endpoint, if its task has got one
HasInitialPage(e) == ptask[e].endpoint_data # <<>>

\* C2: pagination stops exactly at the first page, the initial page counted,
\* whose results is absent or empty: nothing is requested after it and no
\* page without results is added after the initial one, cursor or not.
C2_StopsAtFirstEmptyPage ==
    \A e \in PrimaryEndpoints :
        LET t == ptask[e] IN
        /\ (HasInitialPage(e) /\ NoResults(t.endpoint_data[1]))
              => (sent[e] = 1 /\ Len(t.endpoint_data) = 1)
        /\ \A i \in 2..Len(t.endpoint_data) : ~NoResults(t.endpoint_data[i])
        /\ (t.page_count >= 2 /\ SuccessAndData(t.resp) /\ NoResults(t.resp.data))
              => (t.pc = "returned" /\ sent[e] = t.page_count)

\* C3: the primary phase is all-or-nothing: a dataset is returned only when
\* no fetch of any page of any endpoint failed, and a failed fetch of any page
\* makes get_primary_endpoints fail as a whole.
C3_AllOrNothing ==
    /\ primary.pc = "returned" =>
          \A e \in PrimaryEndpoints : ptask[e].resp.success
    /\ (primary.pc \in {"returned", "raised"}
        /\ \E e \in PrimaryEndpoints : ~ptask[e].resp.success)
          => primary.pc = "raised"

-----------------------------------------------------------------------------
(* Claims about the detail phase (SpecDetail) *)

Succeeded(i) == SuccessAndData(dtask[i].resp)

Positions == [i \in 1..Len(dtask) |-> i]

\* the entries due: one per succeeded fetch, in the order of the pair list
EntriesDue ==
    LET ok == SelectSeq(Positions, Succeeded)
    IN  [k \in 1..Len(ok) |-> [username |-> combos[ok[k]][1],
                                course_id |-> combos[ok[k]][2],
                                data |-> DetailPayload]]

\* C4: the detail phase is best-effort: get_detailed_progress never fails, and
\* it returns exactly one entry per pair whose fetch succeeded, none for a pair
\* whose fetch failed, and the empty list when every fetch failed.
C4_BestEffort ==
    /\ detail.pc # "raised"
    /\ detail.pc = "returned" =>
          /\ Len(dtask) = Len(combos)
          /\ detail.value = EntriesDue
          /\ ((\A i \in 1..Len(dtask) : ~Succeeded(i)) => detail.value = <<>>)

\* C4 witness: the phase returned over a list where one fetch failed and
\* another succeeded.
C4_Witness ==
    /\ detail.pc = "returned"
    /\ \E i, j \in 1..Len(dtask) : dtask[i].pc = "raised" /\ dtask[j].pc = "returned"
    /\ Len(detail.value) < Len(combos)

Got401(i) == dtask[i].pc = "raised" /\ dtask[i].resp.status = 401

EntriesOf(pair) ==
    Cardinality({k \in 1..Len(detail.value) :
        detail.value[k].username = pair[1] /\ detail.value[k].course_id = pair[2]})

SucceededOf(pair) == Cardinality({i \in 1..Len(dtask) : combos[i] = pair /\ Succeeded(i)})

\* C5: a 401 on one detail fetch does not abort its siblings: every sibling
\* can still take its next step, the phase ends only when all have finished,
\* the fetch that got 401 adds no entry and every sibling that succeeded has
\* its entry in the results.
C5_401DoesNotAbortSiblings ==
    \A i \in 1..Len(dtask) : Got401(i) =>
        /\ dtask[i].logged = "Authentication expired"
        /\ \A j \in 1..Len(dtask) :
              /\ dtask[j].pc = "inflight" => ENABLED DetailThreadResponse(j)
              /\ dtask[j].pc = "responded" => ENABLED DetailResume(j)
        /\ detail.pc # "raised"
        /\ detail.pc = "returned" =>
              /\ \A j \in 1..Len(dtask) : TaskDone(dtask[j])
              /\ EntriesOf(combos[i]) = SucceededOf(combos[i])
              /\ \A j \in 1..Len(dtask) :
                    dtask[j].pc = "returned" =>
                        \E k \in 1..Len(detail.value) :
                            detail.value[k] = DetailEntry(dtask[j])

\* C5 witness: the phase returned, one fetch got 401 and a sibling's entry is
\* in the results.
C5_Witness ==
    /\ detail.pc = "returned"
    /\ \E i, j \in 1..Len(dtask) :
          /\ i # j
          /\ Got401(i)
          /\ dtask[j].pc = "returned"
          /\ \E k \in 1..Len(detail.value) : detail.value[k] = DetailEntry(dtask[j])

-----------------------------------------------------------------------------
(* Claims about the manager's raw dataset (SpecFetch) *)

PrimaryKeys == (DOMAIN data_output) \cap PrimaryEndpoints

\* C6: data_output changes only at a phase join: no primary entry before
\* every primary task has finished, never a strict subset of the requested
\* primary endpoints, no progress_detail entry before every detail task has
\* finished.
C6_DatasetOnlyAtJoin ==
    /\ PrimaryKeys # {} => \A e \in PrimaryEndpoints : TaskDone(ptask[e])
    /\ PrimaryKeys \in {{}, PrimaryEndpoints}
    /\ "progress_detail" \in DOMAIN data_output =>
          /\ \A i \in 1..Len(dtask) : TaskDone(dtask[i])
          /\ detail.pc = "returned"
          /\ PrimaryKeys = PrimaryEndpoints
    /\ (\E e \in PrimaryEndpoints : ~TaskDone(ptask[e])) => data_output = EmptyDict

\* C6 witness: detail fetches are in flight and the dataset holds both primary
\* endpoints and no progress_detail entry.
C6_Witness ==
    /\ PrimaryKeys = PrimaryEndpoints
    /\ "progress_detail" \notin DOMAIN data_output
    /\ Len(dtask) >= 2
    /\ \E i, j \in 1..Len(dtask) : dtask[i].pc = "inflight" /\ TaskDone(dtask[j])

-----------------------------------------------------------------------------
(* Claims about the session store (SpecSession) *)

\* the stored content is a record whose 'expires' is a timestamp as
\* save_session_data writes it
HasExpiry(f) == f.kind = "dict" /\ f.expires.tag = "naive"

\* C7: a stored session record is valid iff current time < expires:
\* load_session_data returns the record exactly when the clock is strictly
\* before the record's expires, and none at and after expires.
C7_ValidIffBeforeExpires ==
    (loaded.called /\ HasExpiry(loaded.file)) =>
        /\ loaded.at < loaded.file.expires.at => loaded.outcome = Return(loaded.file)
        /\ loaded.at >= loaded.file.expires.at => loaded.outcome = Return(NoSession)

\* the record has no value under 'expires' that parses as a timestamp
NoUsableExpires(f) ==
    f.kind = "dict" /\ f.expires.tag \in {"missing", "number", "text"}

\* C8: load_session_data never raises: for a missing file, unparsable
\* content, a record without a usable expires, or an expired record (the clock
\* not before expires) it returns none, and it leaves the file unchanged.
C8_LoadNeverRaises ==
    loaded.called =>
        /\ ~Raised(loaded.outcome)
        /\ loaded.file_after = loaded.file
        /\ ( \/ loaded.file.kind \in {"missing", "garbage"}
             \/ NoUsableExpires(loaded.file)
             \/ (HasExpiry(loaded.file) /\ loaded.at >= loaded.file.expires.at) )
              => loaded.outcome = Return(NoSession)

-----------------------------------------------------------------------------
(* Claims about authentication (SpecAuth) *)

\* C9: NoSession/Expired -> Authenticating -> Authenticated: a call of
\* ToastmastersManager.authenticate that finds no valid stored session runs
\* the browser flow (stated for the first call, when the manager holds nothing
\* yet), and whenever the flow succeeds the call returns without error with
\* user_id, club_id and session_data set to the new session's values.
C9_AuthenticatesFromNoSession ==
    /\ (mauth.calls = 1 /\ IsNone(mauth.existing)) => flow.pc # "idle"
    /\ (mauth.pc = "done" /\ IsNone(mauth.existing) /\ flow.result = "tuple") =>
          /\ mauth.outcome = "returned"
          /\ user_id = flow.user_id
          /\ club_id = flow.club_id
          /\ session_data = flow.session_data

\* C10: once the flow has resolved the user id and the club id, authenticate
\* returns success and the record it saved is the session file, whether or not
\* the dashboard club id and the enrollment snapshot were resolved (stated for
\* flows in which no step raised and the write, if reached, did not fail).
C10_PersistsOnceIdentified ==
    (flow.pc = "done" /\ flow.user_id # None /\ flow.club_id # None
        /\ ~flow.exception /\ (flow.result = "tuple" => flow.saved)) =>
        /\ flow.result = "tuple"
        /\ file.kind = "dict"
        /\ file.user_id = flow.user_id
        /\ file.club_id = flow.club_id
        /\ file.timestamp = flow.session_data.timestamp

\* C11: on every exit path of ToastmastersAuthenticator.authenticate, a
\* failure of the browser launch included, the browser is not left open and
\* the call ends by returning a session or none, never by raising.
C11_BrowserReleasedOnEveryExit ==
    flow.pc = "done" =>
        /\ flow.browser # "open"
        /\ flow.result \in {"tuple", "None"}

\* the identifier of the first club of the list that carries the given name
RECURSIVE NamedClubId(_, _)
NamedClubId(clubs, name) ==
    IF clubs = <<>> THEN None
    ELSE IF Head(clubs).name = name /\ Head(clubs).uuid # None
         THEN Head(clubs).uuid
         ELSE NamedClubId(Tail(clubs), name)

\* C12: club resolution matches the configured club name: the club id the
\* flow resolves is the identifier of the listed club whose name equals the
\* configured name, and the flow fails with none when no listed club has it.
C12_MatchesConfiguredClub ==
    flow.profile # NoProfile =>
        LET want == IF flow.profile.success
                    THEN NamedClubId(flow.profile.clubs, club_name) ELSE None
        IN  /\ want # None => flow.club_id = want
            /\ want = None => (flow.club_id = None /\ flow.result = "None")

-----------------------------------------------------------------------------
(* Claims about the Member calculators (SpecMember) *)

\* C13: every pathway add_pathway_progress produced, from any levels payload
\* whose level names start with "Level", has current_level in 1..5 and
\* remaining_projects_in_level >= 0.
C13_LevelInRange ==
    \A k \in DOMAIN member.current_pathways :
        /\ member.current_pathways[k].current_level \in 1..5
        /\ member.current_pathways[k].remaining_projects_in_level >= 0

\* the sum of a count over the levels of the last call's payload
RECURSIVE LevelSum(_, _)
LevelSum(p, key) ==
    IF p = <<>> THEN 0
    ELSE (IF Head(p).name.starts THEN Head(p)[key] ELSE 0) + LevelSum(Tail(p), key)

\* C14: the completion_percentage of the pathway just added lies in
\* 0.0..100.0, is 100 * sum(completed) / sum(total) rounded to one decimal
\* (a nearest tenth), is 0.0 when sum(total) is 0, and
\* remaining_projects_in_pathway is max(sum(total) - sum(completed), 0).
C14_PercentageInRange ==
    call.op = "add_pathway_progress" =>
        LET pw == member.current_pathways[Len(member.current_pathways)]
            t == LevelSum(call.progression, "total")
            c == LevelSum(call.progression, "completed")
            d == pw.completion_percentage * t - 1000 * c
        IN  /\ pw.completion_percentage \in 0..1000
            /\ t > 0 => (2 * d <= t /\ -2 * d <= t)
            /\ t = 0 => pw.completion_percentage = 0
            /\ pw.remaining_projects_in_pathway = Max(t - c, 0)

-----------------------------------------------------------------------------
(* Claims about the aggregation *)

\* the progress results of the raw dataset, page after page
ProgressResults ==
    IF "progress" \in DOMAIN data_output
    THEN FlattenResults(data_output["progress"]) ELSE <<>>

\* the (username, course_id) pairs of the progress results that have both
PairsInProgress ==
    { <<ProgressResults[i].username, ProgressResults[i].course_id>> :
        i \in { j \in DOMAIN ProgressResults :
                  /\ ProgressResults[j].username # None
                  /\ ProgressResults[j].course_id # None } }

\* C15: get_user_course_combinations returns each (username, course_id) pair
\* of the progress pages exactly once: the list handed to the detail phase
\* has no duplicates and its pairs are exactly those of the progress results
\* that have both a username and a course_id (SpecFetch).
C15_EachPairOnce ==
    fetch.pc \in {"detail", "done"} =>
        /\ \A i, j \in DOMAIN combos : i # j => combos[i] # combos[j]
        /\ SeqRange(combos) = PairsInProgress

\* C15 witness: the progress pages list one pair twice and a result without
\* a course_id, and the pair is in the list once.
C15_Witness ==
    /\ fetch.pc = "detail"
    /\ \E i, j \in DOMAIN ProgressResults :
          /\ i # j
          /\ ProgressResults[i] = ProgressResults[j]
          /\ ProgressResults[i].username # None
          /\ ProgressResults[i].course_id # None
    /\ \E i \in DOMAIN ProgressResults : ProgressResults[i].course_id = None
    /\ Len(combos) = Cardinality(PairsInProgress)

\* the last build_member_index call returned
IndexBuilt == call.op = "build_indexes" /\ call.runs >= 1
                 /\ ~Raised(call.member_index[call.runs])

\* C16: aggregation is idempotent: two runs of build_member_index and
\* build_club_index over the same raw dataset both yield Member and Club
\* output, the two outputs are identical, and the first run leaves the raw
\* dataset unchanged (stated for datasets build_member_index accepts;
\* SpecAggregate).
C16_AggregationIdempotent ==
    (call.op = "build_indexes" /\ call.runs = MaxRuns
        /\ ~Raised(call.member_index[1])) =>
        /\ data_output = call.raw
        /\ ~Raised(call.member_index[2])
        /\ call.member_index[2].value = call.member_index[1].value
        /\ ~Raised(call.club_index[1])
        /\ ~Raised(call.club_index[2])
        /\ call.club_index[2].value = call.club_index[1].value

\* the first position of the list whose completion percentage is maximal
FirstMaximal(list) ==
    LET top == CHOOSE i \in DOMAIN list :
                   \A j \in DOMAIN list :
                       list[j].completion_percentage <= list[i].completion_percentage
        tops == { i \in DOMAIN list :
                    list[i].completion_percentage = list[top].completion_percentage }
    IN  CHOOSE i \in tops : \A j \in tops : i <= j

\* C17: when several pathways of a member share the maximal completion
\* percentage, generate_summary selects the one that comes first in the
\* member's pathway list (SpecAggregate).
C17_TieBreakFirst ==
    IndexBuilt =>
        \A i \in DOMAIN members :
            members[i].current_pathways # <<>> =>
                members[i].summary.most_active_pathway =
                    members[i].current_pathways[FirstMaximal(members[i].current_pathways)].name

\* C17 witness: a member's first two pathways have different names and the
\* same, maximal, percentage, and the summary names the first.
C17_Witness ==
    /\ IndexBuilt
    /\ \E i \in DOMAIN members :
          LET ps == members[i].current_pathways IN
          /\ Len(ps) >= 2
          /\ ps[1].name # ps[2].name
          /\ ps[1].completion_percentage = ps[2].completion_percentage
          /\ ps[1].completion_percentage > 0
          /\ \A k \in DOMAIN ps : ps[k].completion_percentage <= ps[1].completion_percentage
          /\ members[i].summary.most_active_pathway = ps[1].name

\* C18: after build_member_index over any raw dataset, every member's
\* current_pathways has at most one entry per pathway name (SpecAggregate).
C18_OneEntryPerPathwayName ==
    IndexBuilt =>
        \A i \in DOMAIN members :
            \A j, k \in DOMAIN members[i].current_pathways :
                j # k => members[i].current_pathways[j].name
                            # members[i].current_pathways[k].name

-----------------------------------------------------------------------------
(* Claims about main (SpecMain) *)

LaterSteps == {"build_indexes", "save_data", "generate_reports"}

\* toastmasters_manager.authenticate() has ended by raising
AuthenticateRaised == mauth.pc = "done" /\ mauth.outcome = "raised"

\* get_primary_endpoints has ended by raising
PrimaryRaised == primary.pc = "raised"

\* C19: whenever authentication fails or the primary phase fails, main goes
\* on to its end, ends with a non-zero outcome, and none of build_indexes,
\* save_data, generate_reports runs.
C19_FailureEndsRun ==
    (AuthenticateRaised \/ PrimaryRaised) =>
        /\ \A k \in DOMAIN main.steps : main.steps[k] \notin LaterSteps
        /\ members = <<>>
        /\ main.pc = "done" => main.outcome \notin {0, -1}
        /\ (AuthenticateRaised /\ main.pc = "authenticate") => ENABLED MainAfterAuthenticate
        /\ (PrimaryRaised /\ fetch.pc = "primary") => ENABLED FetchPrimaryFailed
        /\ (PrimaryRaised /\ fetch.pc = "done") =>
              /\ fetch.result = "False"
              /\ main.pc = "fetch" => ENABLED MainFinish

\* C19 witness: main has ended with outcome 1 after the primary phase failed,
\* having called authenticate and fetch_data_from_endpoints only.
C19_Witness ==
    /\ main.pc = "done"
    /\ main.outcome = 1
    /\ PrimaryRaised
    /\ mauth.outcome = "returned"
    /\ main.steps = <<"authenticate", "fetch_data_from_endpoints">>

\* C20: whenever authentication and the primary phase succeed, main runs
\* build_indexes, save_data and generate_reports and ends with outcome zero,
\* whatever number of detail fetches failed.
C20_SuccessRunsToReports ==
    (main.pc = "done" /\ mauth.outcome = "returned" /\ primary.pc = "returned") =>
        /\ main.outcome = 0
        /\ \A step \in LaterSteps : \E k \in DOMAIN main.steps : main.steps[k] = step

-----------------------------------------------------------------------------
(* Claims about enrichment and next-project extraction *)

\* the members as Step 3 of build_member_index leaves them, before enrichment
Unenriched ==
    Step3Detail(data_output, Step2Progress(data_output, Step1Overview(data_output)))

\* the loaded pathway definitions have an entry for the project's pathway
\* name, level and project name
HasEntry(pd, project) ==
    /\ project.pathway_name \in DOMAIN pd
    /\ project.level \in DOMAIN pd[project.pathway_name]
    /\ FindDetails(pd[project.pathway_name][project.level], project.name).found

\* C21: enrichment failures degrade gracefully: over a dataset steps 1 to 3
\* accept, build_member_index returns all members, and a next project whose
\* pathway name, level or project name has no entry in the loaded pathway
\* definitions keeps its duration and type (SpecAggregate).
C21_EnrichmentDegradesGracefully ==
    (call.op = "build_indexes" /\ call.runs >= 1) =>
        \A s3 \in {Unenriched} :
            ~Raised(s3) =>
                /\ ~Raised(call.member_index[call.runs])
                /\ Len(members) = Len(s3.value)
                /\ \A i \in DOMAIN s3.value :
                      \A k \in DOMAIN s3.value[i].next_projects :
                          ~HasEntry(pathways_data, s3.value[i].next_projects[k]) =>
                              /\ members[i].next_projects[k].duration
                                    = s3.value[i].next_projects[k].duration
                              /\ members[i].next_projects[k].type
                                    = s3.value[i].next_projects[k].type

-----------------------------------------------------------------------------
(* Claims about the current-level scan (SpecMember) *)

\* a level is complete when it is approved or completed equals total
IsComplete(e) == e.approved \/ e.completed = e.total

\* the positions of the payload's levels that are started and not complete
PartialLevels(p) ==
    { i \in DOMAIN p : p[i].name.starts /\ ~IsComplete(p[i]) /\ p[i].completed > 0 }

\* the positions of the payload's levels that are complete
CompleteLevels(p) == { i \in DOMAIN p : p[i].name.starts /\ IsComplete(p[i]) }

\* the level the scan of payload p is to report, before the clamp
ScanLevel(p) ==
    IF PartialLevels(p) # {}
    THEN ExtractLevelNumber(
             p[CHOOSE i \in PartialLevels(p) : \A j \in PartialLevels(p) : i <= j].name)
    ELSE IF CompleteLevels(p) = {} THEN 1
    ELSE ExtractLevelNumber(
             p[CHOOSE i \in CompleteLevels(p) : \A j \in CompleteLevels(p) : j <= i].name) + 1

\* total - completed of the first started, not complete level; 0 without one
ScanRemaining(p) ==
    IF PartialLevels(p) # {}
    THEN LET i == CHOOSE k \in PartialLevels(p) : \A j \in PartialLevels(p) : k <= j
         IN  p[i].total - p[i].completed
    ELSE 0

\* the pathway the last add_pathway_progress call appended
LastPathway == member.current_pathways[Len(member.current_pathways)]

\* the status add_pathway_progress is to give the pathway of the last call
StatusAsListed ==
    LastPathway.status =
        IF InSeq(call.pathway_name, member.completed_pathways)
        THEN "completed" ELSE "active"

\* C22 as stated: the pathway just added has the level of the first started,
\* not complete level N (one more than the last complete level, or 1, without
\* one), clamped to at most 5, has remaining_projects_in_level equal to that
\* level's total - completed (0 without one), and has status completed
\* exactly when its name is in the member's completed-pathway names.
C22_LevelScan_AsStated ==
    call.op = "add_pathway_progress" =>
        /\ LastPathway.current_level = Min(ScanLevel(call.progression), 5)
        /\ LastPathway.remaining_projects_in_level = ScanRemaining(call.progression)
        /\ StatusAsListed

\* C22 (amended): as above, with remaining_projects_in_level equal to
\* max(total - completed, 0) of the first started, not complete level: the
\* remainder is clamped to 0 when the level reports completed > total.
C22_LevelScan ==
    call.op = "add_pathway_progress" =>
        /\ LastPathway.current_level = Min(ScanLevel(call.progression), 5)
        /\ LastPathway.remaining_projects_in_level
              = Max(ScanRemaining(call.progression), 0)
        /\ StatusAsListed

\* C22 witness: Level 1 complete, Level 2 started with 1 of 2, on a pathway
\* that is not among the completed ones: level 2, 1 remaining, active.
C22_Witness ==
    /\ call.op = "add_pathway_progress"
    /\ Len(call.progression) = 2
    /\ call.progression[1].name.text = "Level 1"
    /\ IsComplete(call.progression[1])
    /\ call.progression[2].name.text = "Level 2"
    /\ call.progression[2] = LevelEntry(LevelName("Level 2", TRUE, "2"), FALSE, 1, 2)
    /\ member.completed_pathways = <<"Path A">>
    /\ call.pathway_name = "Path B"
    /\ LastPathway.current_level = 2
    /\ LastPathway.remaining_projects_in_level = 1
    /\ LastPathway.status = "active"

-----------------------------------------------------------------------------
(* Claims about next-project extraction (SpecNextProjects) *)

\* the sequential children of chapter c that are complete or not (done), of
\* the elective library or not (elective)
Sequentials(c, done, elective) ==
    { k \in DOMAIN c.children :
        /\ c.children[k].type = "sequential"
        /\ c.children[k].complete = done
        /\ (c.children[k].block_lib_type = "elective") = elective }

\* the chapter has an incomplete elective item and requires more electives
\* than it has completed ones
ElectivesDue(c) ==
    /\ Sequentials(c, FALSE, TRUE) # {}
    /\ c.min_req_electives > Cardinality(Sequentials(c, TRUE, TRUE))

\* the chapter has something left to do: an incomplete project or electives
\* due
HasIncompleteEntry(c) ==
    c.type = "chapter" /\ (Sequentials(c, FALSE, FALSE) # {} \/ ElectivesDue(c))

\* the chapters of the last call's payload
CallChapters == GetBlocks(call.data).children

\* the position of the first chapter with something left to do, 0 without one
FirstIncompleteChapter ==
    IF \E f \in DOMAIN CallChapters : HasIncompleteEntry(CallChapters[f])
    THEN CHOOSE f \in DOMAIN CallChapters :
             /\ HasIncompleteEntry(CallChapters[f])
             /\ \A g \in DOMAIN CallChapters : HasIncompleteEntry(CallChapters[g]) => f <= g
    ELSE 0

\* the synthesized entries of the list _extract_next_projects returned
ChooseEntries ==
    { k \in DOMAIN call.next_projects : call.next_projects[k].name.kind = "choose" }

\* C23: _extract_next_projects returns a synthesized "Choose N elective(s)
\* from <chapter>" entry iff the chapter it stops at has an incomplete
\* elective item and requires more electives than it has completed ones; it
\* is then the only such entry, with N = minimum required - completed >= 1.
C23_ElectiveSynthesis ==
    call.op = "add_detailed_progress" =>
        /\ Cardinality(ChooseEntries) <= 1
        /\ \A k \in ChooseEntries : call.next_projects[k].name.n >= 1
        /\ (FirstIncompleteChapter # 0 /\ ElectivesDue(CallChapters[FirstIncompleteChapter]))
              => \E k \in ChooseEntries :
                    LET c == CallChapters[FirstIncompleteChapter] IN
                    /\ call.next_projects[k].type = "elective"
                    /\ call.next_projects[k].name.text = c.display_name.text
                    /\ call.next_projects[k].name.n =
                          c.min_req_electives - Cardinality(Sequentials(c, TRUE, TRUE))
        /\ (FirstIncompleteChapter = 0 \/ ~ElectivesDue(CallChapters[FirstIncompleteChapter]))
              => ChooseEntries = {}

\* the entries the chapter at position f of the last call's payload yields
YieldOf(f) ==
    IF CallChapters[f].type # "chapter" THEN <<>>
    ELSE ChapterProjects(CallChapters[f], GetBlocks(call.data).display_name, "C1")

\* the position of the first chapter that yields an entry, 0 without one
FirstYielding ==
    IF \E f \in DOMAIN CallChapters : YieldOf(f) # <<>>
    THEN CHOOSE f \in DOMAIN CallChapters :
             /\ YieldOf(f) # <<>>
             /\ \A g \in DOMAIN CallChapters : YieldOf(g) # <<>> => f <= g
    ELSE 0

-----------------------------------------------------------------------------
(* Claims about the fetch phases followed by build_indexes (SpecPipeline) *)

\* the entries the detail phase left in the raw dataset
DetailEntries ==
    IF "progress_detail" \in DOMAIN data_output
    THEN data_output["progress_detail"] ELSE <<>>

\* the progress feed lists one (username, course_id) pair more than once
FeedRepeatsPair ==
    \E i, j \in DOMAIN ProgressResults :
        /\ i # j
        /\ ProgressResults[i].username = ProgressResults[j].username
        /\ ProgressResults[i].course_id = ProgressResults[j].course_id
        /\ ProgressResults[i].username # None
        /\ ProgressResults[i].course_id # None

\* C25: after the fetch phases the raw dataset has at most one detail entry
\* per (username, course_id) pair, and after build_member_index every member
\* has at most one next project per course identifier, whatever pairs the
\* progress feed repeats across results or pages.
C25_OneNextProjectPerCourse ==
    /\ \A j, k \in DOMAIN DetailEntries :
          j # k => <<DetailEntries[j].username, DetailEntries[j].course_id>>
                      # <<DetailEntries[k].username, DetailEntries[k].course_id>>
    /\ IndexBuilt =>
          \A i \in DOMAIN members :
              \A j, k \in DOMAIN members[i].next_projects :
                  j # k => members[i].next_projects[j].course_id
                              # members[i].next_projects[k].course_id

\* C25 witness: the feed listed (jdoe, C1) more than once, both detail
\* fetches of jdoe's two courses returned blocks, and jdoe has one next
\* project for C1 and one for C2.
C25_Witness ==
    /\ IndexBuilt
    /\ FeedRepeatsPair
    /\ \E i \in DOMAIN members :
          /\ members[i].username = "jdoe"
          /\ Len(members[i].next_projects) = 2
          /\ { members[i].next_projects[k].course_id : k \in 1..2 } = {"C1", "C2"}

-----------------------------------------------------------------------------
(* Claims about Club.generate_summary (SpecClub) *)

\* the entries of a pathway list with status active whose field key is v
RECURSIVE CountInList(_, _, _)
CountInList(ps, key, v) ==
    IF ps = <<>> THEN 0
    ELSE (IF Head(ps).status = "active" /\ Head(ps)[key] = v THEN 1 ELSE 0)
         + CountInList(Tail(ps), key, v)

\* the same over the pathway lists of all members
RECURSIVE CountActive(_, _, _)
CountActive(ms, key, v) ==
    IF ms = <<>> THEN 0
    ELSE CountInList(Head(ms).current_pathways, key, v) + CountActive(Tail(ms), key, v)

\* the count a distribution dict gives to key k: 0 when k is not a key
CountAt(dist, k) == IF k \in DOMAIN dist THEN dist[k] ELSE 0

\* the sum of the counts of a distribution dict over the keys ks
RECURSIVE TotalOver(_, _)
TotalOver(dist, ks) ==
    IF ks = {} THEN 0
    ELSE LET k == CHOOSE x \in ks : TRUE IN dist[k] + TotalOver(dist, ks \ {k})

\* the Club under club_id has its summary
ClubSummarized == club_id \in DOMAIN club /\ club[club_id].distribution.generated

\* C26: after Club.generate_summary the count of each pathway name is the
\* number of member pathway entries of that name with status active, the
\* count of each level the number of (member, active pathway) pairs at that
\* level, a key is present only with a positive count, so pathways with
\* status completed add to neither, and the two distributions have the same
\* total.
C26_OnlyActiveContribute ==
    ClubSummarized =>
        LET c == club[club_id]
            pd == c.distribution.pathway_distribution
            ld == c.distribution.level_distribution
        IN  /\ \A name \in PathwayNames \cup DOMAIN pd :
                  CountAt(pd, name) = CountActive(c.members, "name", name)
            /\ \A level \in (0..6) \cup DOMAIN ld :
                  CountAt(ld, level) = CountActive(c.members, "current_level", level)
            /\ \A k \in DOMAIN pd : pd[k] >= 1
            /\ \A k \in DOMAIN ld : ld[k] >= 1
            /\ TotalOver(pd, DOMAIN pd) = TotalOver(ld, DOMAIN ld)

\* C26 witness: of the club's two members one has a Path A entry with status
\* completed; Path A is counted once, for an active entry, and the active
\* entries are all at one level.
C26_Witness ==
    /\ ClubSummarized
    /\ \E i \in DOMAIN club[club_id].members :
       \E k \in DOMAIN club[club_id].members[i].current_pathways :
          /\ club[club_id].members[i].current_pathways[k].status = "completed"
          /\ club[club_id].members[i].current_pathways[k].name = "Path A"
    /\ "Path A" \in DOMAIN club[club_id].distribution.pathway_distribution
    /\ club[club_id].distribution.pathway_distribution["Path A"] = 1
    /\ Cardinality(DOMAIN club[club_id].distribution.level_distribution) = 1
    /\ Len(club[club_id].members) = 2

-----------------------------------------------------------------------------
(* Claims about the member set (SpecAggregate) *)

\* the overview results of the raw dataset, page after page
OverviewResults ==
    IF "overview" \in DOMAIN data_output
    THEN FlattenResults(data_output["overview"]) ELSE <<>>

\* the usernames seen in the overview pages
OverviewUsernames == { OverviewResults[i].username : i \in DOMAIN OverviewResults }

\* the first overview result of a username
FirstOccurrence(username) ==
    OverviewResults[CHOOSE i \in DOMAIN OverviewResults :
        /\ OverviewResults[i].username = username
        /\ \A j \in DOMAIN OverviewResults :
              OverviewResults[j].username = username => i <= j]

\* an entry names a username of the overview
KnownUser(entry) == entry.username \in OverviewUsernames

\* the raw dataset without the progress and progress_detail entries of
\* usernames that are not in the overview
KnownOnly ==
    RawDataset(OverviewResults, SelectSeq(ProgressResults, KnownUser),
               SelectSeq(DetailEntries, KnownUser))

\* C27: after build_member_index the member keys are exactly the usernames
\* of the overview pages, each once and built from its first occurrence, and
\* the members are those of the dataset without the progress and
\* progress_detail entries of other usernames: such entries make no member
\* and change none.
C27_MembersFromOverview ==
    IndexBuilt =>
        /\ { members[i].username : i \in DOMAIN members } = OverviewUsernames
        /\ \A i, j \in DOMAIN members :
              i # j => members[i].username # members[j].username
        /\ \A i \in DOMAIN members :
              members[i].completed_pathways
                  = FirstOccurrence(members[i].username).completed_paths
        /\ \A known \in {BuildMemberIndex(KnownOnly, pathways_data)} :
              ~Raised(known) /\ members = known.value

\* C27 witness: the overview lists jdoe twice with different completed
\* paths, the progress page has a result of asmith, and the only member is
\* jdoe, with the completed paths of its first listing and no pathway.
C27_Witness ==
    /\ IndexBuilt
    /\ Len(OverviewResults) = 2
    /\ OverviewResults[1].completed_paths # OverviewResults[2].completed_paths
    /\ \E i \in DOMAIN ProgressResults : ProgressResults[i].username = "asmith"
    /\ Len(members) = 1
    /\ members[1].username = "jdoe"
    /\ members[1].completed_pathways = OverviewResults[1].completed_paths
    /\ members[1].current_pathways = <<>>

\* C27 second witness: a progress_detail entry of asmith, who is not in the
\* overview, carries a next project and jdoe, the only member, has none.
C27_WitnessDetail ==
    /\ IndexBuilt
    /\ \E k \in DOMAIN DetailEntries :
          /\ DetailEntries[k].username = "asmith"
          /\ ~GetBlocks(DetailEntries[k].data).empty
    /\ Len(members) = 1
    /\ members[1].username = "jdoe"
    /\ members[1].next_projects = <<>>

-----------------------------------------------------------------------------
(* Claims about Member.generate_summary (SpecMember) *)

\* the positions of the member's pathways with status active
ActiveOf(m) == { k \in DOMAIN m.current_pathways : m.current_pathways[k].status = "active" }

\* C28: generate_summary sets most_active_pathway to "None" exactly when the
\* member has no active pathway; otherwise it names an active pathway whose
\* completion percentage no active pathway exceeds.
C28_MostActiveAmongActive ==
    call.op = "generate_summary" =>
        /\ (member.summary.most_active_pathway = "None") <=> (ActiveOf(member) = {})
        /\ ActiveOf(member) # {} =>
              \E k \in ActiveOf(member) :
                  /\ member.summary.most_active_pathway = member.current_pathways[k].name
                  /\ \A j \in ActiveOf(member) :
                        member.current_pathways[j].completion_percentage
                            <= member.current_pathways[k].completion_percentage

-----------------------------------------------------------------------------
(* Claims about force_auth (SpecAuth) *)

\* C29: every call of ToastmastersManager.authenticate with force_auth=True
\* runs the browser authentication flow, also when a valid stored session
\* exists and when an earlier call has set user_id, club_id and session_data.
C29_ForceAuthRunsFlow ==
    (mauth.calls >= 1 /\ mauth.force) => flow.pc # "idle"

-----------------------------------------------------------------------------
(* Claims about termination of the pagination (SpecPrimaryFair) *)

\* C30: whatever the server answers, a next cursor on every page included,
\* handle_pagination makes at most as many requests as the page limit
\* allows, and the fetch-and-paginate of every endpoint ends: it returns
\* once its first request succeeded, and raises only when that one failed.
C30_PaginationTerminates ==
    /\ [](\A e \in PrimaryEndpoints :
            /\ sent[e] <= PageLimit
            /\ ptask[e].pc = "raised" => ~SuccessAndData(ptask[e].resp))
    /\ (primary.pc = "gathering") ~> (\A e \in PrimaryEndpoints : TaskDone(ptask[e]))

\* C30 witness: both endpoints were served a next cursor on every page and
\* both fetches returned at the page limit.
C30_Witness ==
    \A e \in PrimaryEndpoints :
        /\ ptask[e].pc = "returned"
        /\ ptask[e].page_count = PageLimit
        /\ ptask[e].next_url = Url
        /\ Len(ptask[e].endpoint_data) = PageLimit

====
